---- MODULE Spec2Model ----
(***************************************************************************)
(* Acquisition pipeline of the healthcare informatics server:              *)
(*   - MemStorage's TTL cache (services/storage.py),                       *)
(*   - FHIRClient's paginated fetch and cached getters                     *)
(*     (services/fhir_client.py), with the limits of config.py,            *)
(*   - aggregate_fhir_data and create_source_dataset                       *)
(*     (services/fhir_aggregator.py).                                      *)
(* Time is datetime.utcnow() in whole seconds.  A storage method contains  *)
(* no suspension point, so each one is a single step taken at one instant. *)
(***************************************************************************)
EXTENDS Integers, Sequences, FiniteSets, TLC

\* ------------------------------------------------------------------ bounds
MaxAdvances == 2      \* how many times the clock is advanced in a behaviour
MaxPageLen == 2       \* most resources a server page carries
MaxRecordsTried == 3  \* largest max_records a direct _fetch_paginated call gets
MaxServerPages == 2   \* pages a non-cycling server has for a get_* caller
MaxBeyondTop == 2     \* records a list has beyond the length of its top-N cut
MaxRichRecords == 2   \* length of the lists of partially populated records
MaxPatients == 2      \* length of the patient lists

\* ------------------------------------------------- configuration (config.py)
FHIR_BASE_URL == "https://hapi.fhir.org/baseR4"
CACHE_TTL_MINUTES == 10
DEFAULT_PATIENT_LIMIT == 500
DEFAULT_OBSERVATION_LIMIT == 1000
DEFAULT_CONDITION_LIMIT == 1000
MAX_PATIENTS == 1000
MAX_OBSERVATIONS == 2000
MAX_CONDITIONS == 2000
PAGE_SIZE == 100
cleanup_interval_seconds == 60
SecondsPerMinute == 60
SecondsPerDay == 24 * 60 * SecondsPerMinute

\* Python's None and a present value, for Optional[...] values.
None == << >>
Some(v) == << v >>

VARIABLES
    clock,               \* datetime.utcnow(), seconds since MemStorage()
    advances,            \* number of clock advances so far
    fhir_cache,          \* MemStorage.fhir_cache: key -> entry
    last_cache_cleanup,  \* MemStorage.last_cache_cleanup
    lastop,              \* the last direct cache call and what it returned
    last_set,            \* per key, the last set made on it (history)
    pc,                  \* per caller: "idle", "loop", "returned"
    call,                \* per caller: the get_* call it made
    fetch,               \* per caller: the locals of _fetch_paginated
    obs,                 \* per caller: what the caller and the server saw
    ret,                 \* per caller: the value returned to it
    now_year,            \* datetime.now().year
    patients,            \* fhir_data["patients"], the list handed to both functions
    rollup,              \* aggregate_fhir_data: locals of the loop in progress
    seen,                \* what the loop in progress was fed (history)
    observations,        \* fhir_data["observations"], likewise
    conditions,          \* fhir_data["conditions"], likewise
    aggregated,          \* aggregate_fhir_data: the section it has produced
    source_data,         \* create_source_dataset: what it has produced
    sessions,            \* MemStorage.sessions, in insertion order
    messages,            \* MemStorage.messages, in insertion order
    reports,             \* MemStorage.reports, in insertion order
    requests             \* per generate_report request: where its handler is

clientVars == << clock, advances, fhir_cache, last_cache_cleanup, lastop, last_set,
                 pc, call, fetch, obs, ret >>

inputVars == << patients, observations, conditions >>

aggVars == << now_year, inputVars, rollup, seen, aggregated, source_data >>

chatVars == << sessions, messages, reports, requests >>

vars == << clientVars, aggVars, chatVars >>

storageVars == << fhir_cache, last_cache_cleanup >>
callerVars == << pc, call, fetch, obs, ret >>

\* ======================================================================
\* MemStorage cache (services/storage.py)
\* ======================================================================

\* cache_key = f"{prefix}:{effective_limit}"
Key(prefix, n) == << prefix, n >>

\* (a - b).seconds of a timedelta: the seconds field, days dropped.
TimedeltaSeconds(d) == d % SecondsPerDay

\* storage.py:176  (now - self.last_cache_cleanup).seconds > interval
SweepDue(now, last) == TimedeltaSeconds(now - last) > cleanup_interval_seconds

\* storage.py:200  entry["expires_at"] < now
SweepExpired(entry, now) == entry.expires_at < now

\* storage.py:196-203
clean_expired_cache(cache, now) ==
    LET expired_keys == { k \in DOMAIN cache : SweepExpired(cache[k], now) }
    IN  [ k \in (DOMAIN cache) \ expired_keys |-> cache[k] ]

IsFreshAtExpiry(entry, now) == entry.expires_at >= now

\* storage.py:182  cache_entry["expires_at"] > datetime.utcnow()
IsFresh(entry, now) == entry.expires_at > now

\* storage.py:176-178  the periodic cleanup inside get
CacheAfterCleanup(cache, last, now) ==
    IF SweepDue(now, last) THEN clean_expired_cache(cache, now) ELSE cache

LastCleanupAfterGet(last, now) == IF SweepDue(now, last) THEN now ELSE last

LookupNeverHits(cache, k, now) == None

LookupSkippingEmpty(cache, k, now) ==
    IF k \in DOMAIN cache /\ IsFresh(cache[k], now) /\ cache[k].data # << >>
    THEN Some(cache[k].data) ELSE None

\* storage.py:180-186  the lookup, on the cache left by the cleanup
LookupResult(cache, k, now) ==
    IF k \in DOMAIN cache /\ IsFresh(cache[k], now)
    THEN Some(cache[k].data) ELSE None

CacheAfterLookup(cache, k, now) ==
    IF k \in DOMAIN cache /\ ~IsFresh(cache[k], now)
    THEN [ kk \in (DOMAIN cache) \ {k} |-> cache[kk] ]
    ELSE cache

\* storage.py:173-186  get_cached_fhir_data: result and the cache it leaves
GetResult(cache, last, k, now) ==
    LookupResult(CacheAfterCleanup(cache, last, now), k, now)

CacheAfterGet(cache, last, k, now) ==
    CacheAfterLookup(CacheAfterCleanup(cache, last, now), k, now)

\* storage.py:189  datetime.utcnow() + timedelta(minutes=ttl_minutes)
ExpiresAt(now, ttl_minutes) == now + ttl_minutes * SecondsPerMinute

CacheAfterSetKeepingFirst(cache, k, data, ttl_minutes, now) ==
    [ kk \in (DOMAIN cache) \cup {k} |->
        IF kk = k /\ k \notin DOMAIN cache
        THEN [ data |-> data,
               expires_at |-> ExpiresAt(now, ttl_minutes),
               created_at |-> now ]
        ELSE cache[kk] ]

CacheAfterSetMerging(cache, k, data, ttl_minutes, now) ==
    [ kk \in (DOMAIN cache) \cup {k} |->
        IF kk = k
        THEN [ data |-> IF k \in DOMAIN cache THEN cache[k].data \o data ELSE data,
               expires_at |-> ExpiresAt(now, ttl_minutes),
               created_at |-> now ]
        ELSE cache[kk] ]

\* storage.py:188-194  set_cached_fhir_data
CacheAfterSet(cache, k, data, ttl_minutes, now) ==
    [ kk \in (DOMAIN cache) \cup {k} |->
        IF kk = k
        THEN [ data |-> data,
               expires_at |-> ExpiresAt(now, ttl_minutes),
               created_at |-> now ]
        ELSE cache[kk] ]

\* ======================================================================
\* Direct calls on the cache, and the passing of time
\* ======================================================================

Callers == { "c1", "c2" }

\* Keys, data and TTLs the direct cache calls are tried with.
CacheKeys == { Key("patients", DEFAULT_PATIENT_LIMIT), Key("patients", MAX_PATIENTS) }
DataChoices == { << >>, << "r1" >> }
TtlChoices == { 0, 1, CACHE_TTL_MINUTES }

\* Durations the clock is advanced by: one second, the sweep interval, one day.
CacheDeltas == { 1, cleanup_interval_seconds, SecondsPerDay }

EmptyDict == [ k \in {} |-> None ]

\* The last direct cache call: its name, key, result and time, the time since
\* the last cleanup when it was made, whether the key had an entry, and whether
\* every entry that was unexpired at the call is still there unchanged (kept).
NoOp == [ name |-> "none", key |-> None, result |-> None, now |-> 0, since |-> 0,
          had |-> FALSE, kept |-> TRUE ]

Kept(before, after, now) ==
    \A k \in DOMAIN before :
        now < before[k].expires_at => (k \in DOMAIN after /\ after[k] = before[k])

\* A fetch that has not started: the locals of _fetch_paginated.
NoFetch == [ resource_type |-> "", params |-> EmptyDict, max_records |-> 0,
             results |-> << >>, next_url |-> None, fetched_count |-> 0,
             stopped |-> FALSE ]

\* What the server saw of a fetch: the number of requests, the last request's
\* URL and parameters, the link the response before it carried (via), the last
\* response's status, the resources of the pages that arrived intact (served),
\* the number of resources sent, the number of the request that failed, and
\* the number of _fetch_paginated calls made (fetches).
NoObs == [ requests |-> 0, url |-> None, request_params |-> EmptyDict,
           via |-> None, link |-> None, status |-> "", served |-> << >>,
           sent |-> 0, failed_at |-> 0, hit |-> FALSE, fetches |-> 0 ]

NoCall == [ method |-> "", limit |-> None, effective_limit |-> 0, cache_key |-> None ]

\* aggregate_fhir_data's loop over observations or conditions, not started:
\* which list it runs over, how many records it has taken, and its dicts
\* (code_count / condition_count as the list of its entries in insertion
\* order, which is the order sorted() receives them in).
NoRollup == [ kind |-> "", taken |-> 0, category_count |-> EmptyDict,
              code_count |-> << >>, severity_dist |-> EmptyDict ]

\* What a loop was fed: the codes tallied, in first-seen order; per code the
\* number of records tallied under it and the display of the last of them.
NoSeen == [ order |-> << >>, count |-> EmptyDict, last_display |-> EmptyDict ]

\* The year aggregate_fhir_data and create_source_dataset are evaluated in.
EvaluationYear == 2024

\* No aggregation is in progress and none has been made.
InitAggregator ==
    /\ now_year = EvaluationYear
    /\ patients = << >>
    /\ observations = << >>
    /\ conditions = << >>
    /\ rollup = NoRollup
    /\ seen = NoSeen
    /\ aggregated = None
    /\ source_data = None

InitStorage ==
    /\ clock = 0
    /\ advances = 0
    /\ fhir_cache = EmptyDict
    /\ last_cache_cleanup = 0
    /\ lastop = NoOp
    /\ last_set = EmptyDict

InitCallers ==
    /\ pc = [ c \in Callers |-> "idle" ]
    /\ call = [ c \in Callers |-> NoCall ]
    /\ fetch = [ c \in Callers |-> NoFetch ]
    /\ obs = [ c \in Callers |-> NoObs ]
    /\ ret = [ c \in Callers |-> None ]

\* The generate_report requests in flight at the same time.
Requests == { "q1", "q2" }

\* A request that has not been made: where its handler is ("none", "data",
\* "ai", "chat", "done", "failed"), its session_id and use_cache, the
\* data_source it settled on, whether its aggregated data is a non-empty
\* dict, the error that ended it, and the storage calls it has made, in
\* program order (history).
NoRequest == [ pc |-> "none", session_id |-> 0, use_cache |-> FALSE,
               data_source |-> "", has_data |-> FALSE, error |-> "",
               stored |-> << >> ]

\* MemStorage.__init__ (storage.py:88-90): no session, message or report;
\* no generate_report request has been made.
InitChat ==
    /\ sessions = << >>
    /\ messages = << >>
    /\ reports = << >>
    /\ requests = [ q \in Requests |-> NoRequest ]

\* Time passes by one of the durations in deltas.
Advance(deltas) ==
    /\ advances < MaxAdvances
    /\ \E d \in deltas : clock' = clock + d
    /\ advances' = advances + 1
    /\ UNCHANGED << fhir_cache, last_cache_cleanup, lastop, last_set, callerVars >>
    /\ UNCHANGED << aggVars, chatVars >>

\* await storage.get_cached_fhir_data(k)
CacheGet(k) ==
    /\ fhir_cache' = CacheAfterGet(fhir_cache, last_cache_cleanup, k, clock)
    /\ last_cache_cleanup' = LastCleanupAfterGet(last_cache_cleanup, clock)
    /\ lastop' = [ name |-> "get", key |-> k,
                   result |-> GetResult(fhir_cache, last_cache_cleanup, k, clock),
                   now |-> clock, since |-> clock - last_cache_cleanup,
                   had |-> k \in DOMAIN fhir_cache,
                   kept |-> Kept(fhir_cache, fhir_cache', clock) ]
    /\ UNCHANGED << clock, advances, last_set, callerVars >>
    /\ UNCHANGED << aggVars, chatVars >>

\* The history of sets: per key, the data, time and TTL of the last one.
RecordSet(hist, k, data, ttl_minutes, now) ==
    [ kk \in (DOMAIN hist) \cup {k} |->
        IF kk = k THEN [ data |-> data, at |-> now, ttl |-> ttl_minutes ]
        ELSE hist[kk] ]

\* await storage.set_cached_fhir_data(k, data, ttl)
CacheSet(k, data, ttl) ==
    /\ fhir_cache' = CacheAfterSet(fhir_cache, k, data, ttl, clock)
    /\ last_set' = RecordSet(last_set, k, data, ttl, clock)
    /\ lastop' = [ name |-> "set", key |-> k, result |-> None,
                   now |-> clock, since |-> clock - last_cache_cleanup,
                   had |-> k \in DOMAIN fhir_cache, kept |-> TRUE ]
    /\ UNCHANGED << clock, advances, last_cache_cleanup, callerVars >>
    /\ UNCHANGED << aggVars, chatVars >>

\* await storage.clean_expired_cache()
CacheSweep ==
    /\ fhir_cache' = clean_expired_cache(fhir_cache, clock)
    /\ lastop' = [ name |-> "sweep", key |-> None, result |-> None,
                   now |-> clock, since |-> clock - last_cache_cleanup,
                   had |-> FALSE,
                   kept |-> Kept(fhir_cache, fhir_cache', clock) ]
    /\ UNCHANGED << clock, advances, last_cache_cleanup, last_set, callerVars >>
    /\ UNCHANGED << aggVars, chatVars >>

InitCache == InitStorage /\ InitCallers /\ InitAggregator /\ InitChat

NextCache ==
    \/ \E k \in CacheKeys : CacheGet(k)
    \/ \E k \in CacheKeys, d \in DataChoices, ttl \in TtlChoices : CacheSet(k, d, ttl)
    \/ CacheSweep
    \/ Advance(CacheDeltas)

SpecCache == InitCache /\ [][NextCache]_vars

\* ======================================================================
\* FHIRClient._fetch_paginated (services/fhir_client.py)
\* ======================================================================

ResourceTypes == { "Patient", "Observation", "Condition" }

\* fhir_client.py:33  f"{self.base_url}/{resource_type}"
FirstUrl(resource_type) == << FHIR_BASE_URL, resource_type >>

\* Other URLs a server may put in a "next" link: a continuation URL and "".
PageUrl == << FHIR_BASE_URL, "?_getpages=1" >>
EmptyUrl == << >>

SortParams == [ k \in { "_sort" } |-> "-date" ]

Min(a, b) == IF a < b THEN a ELSE b
Max(a, b) == IF a > b THEN a ELSE b

\* fhir_client.py:32-34  the locals at the start of the call
StartFetch(resource_type, params, max_records) ==
    [ resource_type |-> resource_type, params |-> params,
      max_records |-> max_records, results |-> << >>,
      next_url |-> Some(FirstUrl(resource_type)), fetched_count |-> 0,
      stopped |-> FALSE ]

\* Python truthiness of next_url: None and "" are false.
Truthy(url) == url # None /\ url[1] # EmptyUrl

LoopCondIgnoringCount(f) == Truthy(f.next_url)

\* fhir_client.py:37  while next_url and fetched_count < max_records
LoopCond(f) == Truthy(f.next_url) /\ f.fetched_count < f.max_records

\* The loop goes round once more: no break was taken and the condition holds.
LoopRuns(f) == ~f.stopped /\ LoopCond(f)

\* {**params, "_count": self.page_size}
WithCount(params) ==
    [ k \in (DOMAIN params) \cup { "_count" } |->
        IF k = "_count" THEN PAGE_SIZE ELSE params[k] ]

\* fhir_client.py:40  parameters of the request about to be sent
RequestParams(f) ==
    IF f.next_url = Some(FirstUrl(f.resource_type))
    THEN WithCount(f.params) ELSE EmptyDict

ExtendInFront(f, resources) ==
    [ f EXCEPT !.results = resources \o @,
               !.fetched_count = @ + Len(resources) ]

\* fhir_client.py:49-50  results.extend(resources); fetched_count += len(...)
Extend(f, resources) ==
    [ f EXCEPT !.results = @ \o resources,
               !.fetched_count = @ + Len(resources) ]

AfterPageRetrying(f, resp) ==
    CASE resp.status = "fail" -> f
      [] resp.status = "malformed" ->
            [ Extend(f, resp.resources) EXCEPT !.stopped = TRUE ]
      [] OTHER ->
            [ Extend(f, resp.resources) EXCEPT
                !.next_url = resp.link,
                !.stopped = (resp.resources = << >>) ]

AfterPageIgnoringEmpty(f, resp) ==
    CASE resp.status = "fail" -> [ f EXCEPT !.stopped = TRUE ]
      [] resp.status = "malformed" ->
            [ Extend(f, resp.resources) EXCEPT !.stopped = TRUE ]
      [] OTHER ->
            [ Extend(f, resp.resources) EXCEPT !.next_url = resp.link ]

\* fhir_client.py:42-63  one round of the loop, given the server's response:
\*   "fail"      the request, the status check or the JSON parse raised;
\*   "malformed" the bundle parsed but its next link has no "url" (KeyError
\*               at line 55, after the page was added);
\*   "ok"        a bundle with its resources and its next link (or None).
AfterPage(f, resp) ==
    CASE resp.status = "fail" -> [ f EXCEPT !.stopped = TRUE ]
      [] resp.status = "malformed" ->
            [ Extend(f, resp.resources) EXCEPT !.stopped = TRUE ]
      [] OTHER ->
            [ Extend(f, resp.resources) EXCEPT
                !.next_url = resp.link,
                !.stopped = (resp.resources = << >>) ]

TruncateNothing(results, max_records) == results

TruncateOneLate(results, max_records) ==
    SubSeq(results, 1, IF max_records + 1 < Len(results)
                       THEN max_records + 1 ELSE Len(results))

\* fhir_client.py:66  results[:max_records], a Python slice
Truncate(results, max_records) ==
    LET stop == IF max_records >= 0
                THEN Min(max_records, Len(results))
                ELSE Max(Len(results) + max_records, 0)
    IN  SubSeq(results, 1, stop)

\* The n resources a server sends caller c next, numbered in sending order.
Page(c, sent, n) == [ i \in 1..n |-> << c, sent + i >> ]

\* The responses a server may give to caller c's next request.
Answers(c, sizes, links) ==
    { [ status |-> "fail", resources |-> << >>, link |-> None ] }
    \cup { [ status |-> "ok", resources |-> Page(c, obs[c].sent, n), link |-> l ] :
             n \in sizes, l \in links }

Responses(c, sizes, links) ==
    Answers(c, sizes, links)
    \cup { [ status |-> "malformed", resources |-> Page(c, obs[c].sent, n), link |-> None ] :
             n \in sizes }

AllLinks(resource_type) ==
    { None, Some(EmptyUrl), Some(PageUrl), Some(FirstUrl(resource_type)) }

\* What the server saw of the request and what it answered.
Observe(o, f, resp) ==
    [ o EXCEPT !.requests = @ + 1,
               !.url = f.next_url,
               !.request_params = RequestParams(f),
               !.via = o.link,
               !.link = resp.link,
               !.status = resp.status,
               !.served = IF resp.status = "ok" THEN @ \o resp.resources ELSE @,
               !.sent = @ + Len(resp.resources),
               !.failed_at = IF resp.status = "fail" /\ @ = 0 THEN o.requests + 1 ELSE @ ]

\* A direct call _fetch_paginated(resource_type, params, max_records).
CallFetch(c, resource_type, params, max_records) ==
    /\ pc[c] = "idle"
    /\ pc' = [ pc EXCEPT ![c] = "loop" ]
    /\ fetch' = [ fetch EXCEPT ![c] = StartFetch(resource_type, params, max_records) ]
    /\ obs' = [ obs EXCEPT ![c].fetches = @ + 1 ]
    /\ UNCHANGED << clock, advances, storageVars, lastop, last_set, call, ret >>
    /\ UNCHANGED << aggVars, chatVars >>

\* One round of the while loop: the request, the await and the response.
FetchPage(c, resp) ==
    /\ pc[c] = "loop"
    /\ LoopRuns(fetch[c])
    /\ fetch' = [ fetch EXCEPT ![c] = AfterPage(fetch[c], resp) ]
    /\ obs' = [ obs EXCEPT ![c] = Observe(obs[c], fetch[c], resp) ]
    /\ UNCHANGED << clock, advances, storageVars, lastop, last_set, pc, call, ret >>
    /\ UNCHANGED << aggVars, chatVars >>

\* The loop has ended and the direct call returns results[:max_records].
ReturnFetch(c) ==
    /\ pc[c] = "loop"
    /\ call[c] = NoCall
    /\ ~LoopRuns(fetch[c])
    /\ ret' = [ ret EXCEPT ![c] = Some(Truncate(fetch[c].results, fetch[c].max_records)) ]
    /\ pc' = [ pc EXCEPT ![c] = "returned" ]
    /\ UNCHANGED << clock, advances, storageVars, lastop, last_set, call, fetch, obs >>
    /\ UNCHANGED << aggVars, chatVars >>

FetchCaller == "c1"

InitFetch == InitStorage /\ InitCallers /\ InitAggregator /\ InitChat

NextFetch ==
    \/ \E rt \in ResourceTypes, params \in { EmptyDict, SortParams },
          max_records \in (-1)..MaxRecordsTried :
            CallFetch(FetchCaller, rt, params, max_records)
    \/ \E resp \in Responses(FetchCaller, 0..MaxPageLen,
                             AllLinks(fetch[FetchCaller].resource_type)) :
            FetchPage(FetchCaller, resp)
    \/ ReturnFetch(FetchCaller)

SpecFetch == InitFetch /\ [][NextFetch]_vars

\* ======================================================================
\* FHIRClient.get_patients / get_observations / get_conditions
\* ======================================================================

\* fhir_client.py:82  min(limit or self.default_..._limit, self.max_...)
\* (`limit or default` takes the default for None and for 0).
EffectiveLimit(limit, default_limit, hard_max) ==
    Min(IF limit = None \/ limit = Some(0) THEN default_limit ELSE limit[1], hard_max)

\* Limits a caller passes: none, negative, zero, small, above every maximum.
LimitChoices == { None, Some(-1), Some(0), Some(1), Some(MAX_OBSERVATIONS + 1) }

\* fhir_client.py:68-78  _get_cached up to its first suspension: the cache is
\* consulted; a hit returns, a miss enters _fetch_paginated.
GetCached(c, method, limit, effective_limit, cache_key, resource_type, params) ==
    LET cached == GetResult(fhir_cache, last_cache_cleanup, cache_key, clock) IN
    /\ pc[c] = "idle"
    /\ call' = [ call EXCEPT ![c] = [ method |-> method, limit |-> limit,
                                      effective_limit |-> effective_limit,
                                      cache_key |-> Some(cache_key) ] ]
    /\ fhir_cache' = CacheAfterGet(fhir_cache, last_cache_cleanup, cache_key, clock)
    /\ last_cache_cleanup' = LastCleanupAfterGet(last_cache_cleanup, clock)
    /\ IF cached # None
       THEN /\ ret' = [ ret EXCEPT ![c] = cached ]
            /\ pc' = [ pc EXCEPT ![c] = "returned" ]
            /\ obs' = [ obs EXCEPT ![c].hit = TRUE ]
            /\ UNCHANGED fetch
       ELSE /\ fetch' = [ fetch EXCEPT ![c] =
                            StartFetch(resource_type, params, effective_limit) ]
            /\ pc' = [ pc EXCEPT ![c] = "loop" ]
            /\ obs' = [ obs EXCEPT ![c].fetches = @ + 1 ]
            /\ UNCHANGED ret
    /\ UNCHANGED << clock, advances, lastop, last_set >>
    /\ UNCHANGED << aggVars, chatVars >>

\* fhir_client.py:80-88
GetPatients(c, limit) ==
    LET effective_limit == EffectiveLimit(limit, DEFAULT_PATIENT_LIMIT, MAX_PATIENTS)
    IN  GetCached(c, "get_patients", limit, effective_limit,
                  Key("patients", effective_limit), "Patient", EmptyDict)

\* fhir_client.py:90-98
GetObservations(c, limit) ==
    LET effective_limit == EffectiveLimit(limit, DEFAULT_OBSERVATION_LIMIT, MAX_OBSERVATIONS)
    IN  GetCached(c, "get_observations", limit, effective_limit,
                  Key("observations", effective_limit), "Observation", SortParams)

\* fhir_client.py:100-108
GetConditions(c, limit) ==
    LET effective_limit == EffectiveLimit(limit, DEFAULT_CONDITION_LIMIT, MAX_CONDITIONS)
    IN  GetCached(c, "get_conditions", limit, effective_limit,
                  Key("conditions", effective_limit), "Condition", EmptyDict)

\* What is still known of a fetch once it has returned and its locals are gone.
Returned(o) ==
    [ NoObs EXCEPT !.requests = o.requests, !.fetches = o.fetches,
                   !.failed_at = o.failed_at ]

\* fhir_client.py:66 and 76-78  _fetch_paginated returns results[:max_records]
\* to _get_cached, which stores it under the key and returns it.
FinishCached(c) ==
    LET data == Truncate(fetch[c].results, fetch[c].max_records)
        key == call[c].cache_key[1] IN
    /\ pc[c] = "loop"
    /\ call[c] # NoCall
    /\ ~LoopRuns(fetch[c])
    /\ fhir_cache' = CacheAfterSet(fhir_cache, key, data, CACHE_TTL_MINUTES, clock)
    /\ last_set' = RecordSet(last_set, key, data, CACHE_TTL_MINUTES, clock)
    /\ ret' = [ ret EXCEPT ![c] = Some(data) ]
    /\ pc' = [ pc EXCEPT ![c] = "returned" ]
    /\ fetch' = [ fetch EXCEPT ![c] = NoFetch ]
    /\ obs' = [ obs EXCEPT ![c] = Returned(obs[c]) ]
    /\ UNCHANGED << clock, advances, last_cache_cleanup, lastop, call >>
    /\ UNCHANGED << aggVars, chatVars >>

\* While callers run the clock advances by half the cache TTL at a time, up
\* to the instant an entry stored at time 0 expires.
HalfTtl == (CACHE_TTL_MINUTES * SecondsPerMinute) \div 2
Horizon == CACHE_TTL_MINUTES * SecondsPerMinute

Elapse ==
    /\ clock + HalfTtl <= Horizon
    /\ clock' = clock + HalfTtl
    /\ UNCHANGED << advances, fhir_cache, last_cache_cleanup, lastop, last_set, callerVars >>
    /\ UNCHANGED << aggVars, chatVars >>

\* Links the server may return to a get_* caller: it has MaxServerPages pages.
ServerLinks(c) ==
    IF obs[c].requests + 1 < MaxServerPages
    THEN { None, Some(PageUrl) } ELSE { None }

\* The getters are called one after another, as routes.py:94-106 awaits them:
\* a call starts when no other call is inside its fetch.  The callers are
\* interchangeable, so FetchCaller is taken to be the one that calls first.
MayCall(c) ==
    /\ \A other \in Callers : pc[other] # "loop"
    /\ c = FetchCaller \/ pc[FetchCaller] # "idle"

Init == InitStorage /\ InitCallers /\ InitAggregator /\ InitChat

Next ==
    \/ \E c \in Callers, limit \in LimitChoices :
         MayCall(c) /\ GetPatients(c, limit)
    \/ \E c \in Callers, limit \in LimitChoices :
         MayCall(c) /\ GetObservations(c, limit)
    \/ \E c \in Callers, limit \in LimitChoices :
         MayCall(c) /\ GetConditions(c, limit)
    \/ \E c \in Callers :
         \E resp \in Answers(c, 0..MaxPageLen, ServerLinks(c)) : FetchPage(c, resp)
    \/ \E c \in Callers : FinishCached(c)
    \/ Elapse

Spec == Init /\ [][Next]_vars

\* ======================================================================
\* Properties of _fetch_paginated, checked under SpecFetch
\* ======================================================================

\* The first n elements of a list (all of it when it is shorter).
FirstN(list, n) == SubSeq(list, 1, Min(n, Len(list)))

\* C1: for every max_records >= 0 and every server behaviour, the list a
\* direct _fetch_paginated call returns has at most max_records elements.
C1_ReturnedWithinMax ==
    \A c \in Callers :
        (pc[c] = "returned" /\ call[c] = NoCall /\ fetch[c].max_records >= 0)
            => Len(ret[c][1]) <= fetch[c].max_records

\* C1 witness: the last page overshot the cap and the returned list was cut
\* to max_records.
C1_Witness ==
    \E c \in Callers :
        /\ pc[c] = "returned" /\ call[c] = NoCall
        /\ fetch[c].max_records >= 1
        /\ Len(fetch[c].results) > fetch[c].max_records
        /\ Len(ret[c][1]) = fetch[c].max_records

\* C2: when the request for page k fails, the loop is over, no request
\* follows the failed one, and the call returns the resources of pages
\* 1..k-1 in order, cut to max_records.
C2_FailureReturnsEarlierPages ==
    \A c \in Callers :
        obs[c].failed_at > 0 =>
            /\ obs[c].requests = obs[c].failed_at
            /\ pc[c] \in { "loop", "returned" }
            /\ pc[c] = "loop" => ~LoopRuns(fetch[c])
            /\ (pc[c] = "returned" /\ call[c] = NoCall) =>
                   ret[c] = Some(FirstN(obs[c].served, fetch[c].max_records))

\* C2 witness: page 2 failed and the call returned exactly page 1.
C2_Witness ==
    \E c \in Callers :
        /\ pc[c] = "returned" /\ call[c] = NoCall
        /\ obs[c].failed_at = 2
        /\ obs[c].served # << >>
        /\ ret[c] = Some(obs[c].served)

\* C4: only the first request of a fetch carries initialParams and the
\* page-size parameter; every later request goes to the previous response's
\* next link verbatim and carries no parameter, whatever URL that link has.
C4_OnlyFirstRequestCarriesParams ==
    \A c \in Callers :
        /\ obs[c].requests = 1 =>
               /\ obs[c].url = Some(FirstUrl(fetch[c].resource_type))
               /\ obs[c].request_params = WithCount(fetch[c].params)
        /\ obs[c].requests > 1 =>
               /\ obs[c].url = obs[c].via
               /\ obs[c].request_params = EmptyDict

\* ======================================================================
\* Properties of the cache, checked under SpecCache
\* ======================================================================

\* C5: after set(k, d, ttl) at time t with no later set on k, a get(k) at
\* time t' returns d when t' < t + ttl and absent when t' >= t + ttl,
\* whatever gets, sets on other keys and sweeps happened in between.
C5_RoundTrip ==
    (lastop.name = "get" /\ lastop.key \in DOMAIN last_set) =>
        LET s == last_set[lastop.key] IN
        lastop.result = IF lastop.now < s.at + s.ttl * SecondsPerMinute
                        THEN Some(s.data) ELSE None

\* C5 witness: a get made at the very instant a one-minute entry expires,
\* which returned absent.
C5_Witness ==
    /\ lastop.name = "get" /\ lastop.key \in DOMAIN last_set
    /\ last_set[lastop.key].ttl = 1
    /\ lastop.now = last_set[lastop.key].at + SecondsPerMinute
    /\ lastop.result = None

\* C6: on every get made at time now, if more than 60 seconds have elapsed
\* since the last sweep (however many, a day or more included) a full sweep
\* runs and the last-sweep timestamp becomes now; otherwise no sweep runs and
\* the timestamp is unchanged.
C6_SweepWhenIntervalElapsed ==
    lastop.name = "get" =>
        IF lastop.since > cleanup_interval_seconds
        THEN /\ last_cache_cleanup = lastop.now
             /\ \A k \in DOMAIN fhir_cache : ~(fhir_cache[k].expires_at < lastop.now)
        ELSE last_cache_cleanup = lastop.now - lastop.since

\* C7: immediately after a sweep at time now (called directly or triggered
\* inside get) the cache holds no entry with expires_at <= now, and every
\* entry with now < expires_at is kept unchanged.
C7_NoExpiredAfterSweep ==
    (\/ lastop.name = "sweep"
     \/ (lastop.name = "get" /\ lastop.since > 0 /\ last_cache_cleanup = lastop.now)) =>
        /\ \A k \in DOMAIN fhir_cache : lastop.now < fhir_cache[k].expires_at
        /\ lastop.kept

\* C8: set(k, d, ttl) at time now replaces whatever entry k had by data d
\* with expires_at = now + ttl, never merging with the earlier data, and
\* leaves the entry of every other key as it was.
C8_SetReplacesOnlyItsKey ==
    [][ \A k \in CacheKeys, d \in DataChoices, ttl \in TtlChoices :
          CacheSet(k, d, ttl) =>
            /\ k \in DOMAIN fhir_cache'
            /\ fhir_cache'[k].data = d
            /\ fhir_cache'[k].expires_at = clock + ttl * SecondsPerMinute
            /\ \A other \in CacheKeys \ {k} :
                 /\ other \in DOMAIN fhir_cache' <=> other \in DOMAIN fhir_cache
                 /\ other \in DOMAIN fhir_cache => fhir_cache'[other] = fhir_cache[other]
      ]_vars

\* C8 witness: a set on patients:500 that replaced an earlier entry with
\* other data while patients:1000 holds an entry.
C8_Witness ==
    /\ lastop.name = "set" /\ lastop.had
    /\ lastop.key = Key("patients", DEFAULT_PATIENT_LIMIT)
    /\ fhir_cache[lastop.key].data = << >>
    /\ Key("patients", MAX_PATIENTS) \in DOMAIN fhir_cache
    /\ fhir_cache[Key("patients", MAX_PATIENTS)].data # << >>

\* ======================================================================
\* Properties of the cached getters, checked under Spec
\* ======================================================================

\* The defaults, maxima and key prefixes of the three getters.
DefaultLimitOf(method) ==
    CASE method = "get_patients" -> DEFAULT_PATIENT_LIMIT
      [] method = "get_observations" -> DEFAULT_OBSERVATION_LIMIT
      [] OTHER -> DEFAULT_CONDITION_LIMIT

HardMaxOf(method) ==
    CASE method = "get_patients" -> MAX_PATIENTS
      [] method = "get_observations" -> MAX_OBSERVATIONS
      [] OTHER -> MAX_CONDITIONS

PrefixOf(method) ==
    CASE method = "get_patients" -> "patients"
      [] method = "get_observations" -> "observations"
      [] OTHER -> "conditions"

\* min(requestedLimit if provided else defaultLimit, hardMaxForType)
RequestedOrDefault(method, limit) ==
    Min(IF limit = None THEN DefaultLimitOf(method) ELSE limit[1], HardMaxOf(method))

\* C3: for each getter and every requested limit (absent, or any integer,
\* 0 included) the limit used in the cache key and passed to the paginated
\* fetch is min(requested if provided else default, hard maximum).
C3_EffectiveLimitIsMin ==
    \A c \in Callers :
        call[c] # NoCall =>
            LET wanted == RequestedOrDefault(call[c].method, call[c].limit) IN
            /\ call[c].effective_limit = wanted
            /\ call[c].cache_key = Some(Key(PrefixOf(call[c].method), wanted))
            /\ pc[c] = "loop" => fetch[c].max_records = wanted

\* C9: a getter consults the cache under {type}:{effectiveLimit} before it
\* contacts the server; on an unexpired entry it returns that entry's list
\* and sends no request; otherwise it runs exactly one paginated fetch with
\* max_records = effectiveLimit and stores the fetched list under the same
\* key with the configured TTL before returning it.
C9_CacheBeforeFetch ==
    [][ \A c \in Callers :
          /\ (pc[c] = "idle" /\ pc'[c] # "idle") =>
                LET k == Key(PrefixOf(call'[c].method), call'[c].effective_limit) IN
                /\ call'[c].cache_key = Some(k)
                /\ obs'[c].requests = 0
                /\ IF k \in DOMAIN fhir_cache /\ clock < fhir_cache[k].expires_at
                   THEN /\ pc'[c] = "returned"
                        /\ ret'[c] = Some(fhir_cache[k].data)
                        /\ obs'[c].fetches = 0
                   ELSE /\ pc'[c] = "loop"
                        /\ obs'[c].fetches = 1
                        /\ fetch'[c].max_records = call'[c].effective_limit
                        /\ fetch'[c].results = << >>
          /\ (pc[c] = "loop" /\ pc'[c] = "loop") =>
                /\ obs'[c].fetches = obs[c].fetches
                /\ call'[c] = call[c]
          /\ (pc[c] = "loop" /\ pc'[c] = "returned") =>
                LET k == call[c].cache_key[1] IN
                /\ obs'[c].fetches = 1
                /\ obs'[c].requests = obs[c].requests
                /\ ret'[c] = Some(FirstN(fetch[c].results, call[c].effective_limit))
                /\ k \in DOMAIN fhir_cache'
                /\ fhir_cache'[k].data = ret'[c][1]
                /\ fhir_cache'[k].expires_at = clock + CACHE_TTL_MINUTES * SecondsPerMinute
      ]_vars

\* C9 witness: one caller missed, fetched and stored a non-empty list, and a
\* later caller got that list from the cache without any request.
C9_Witness ==
    \E c, d \in Callers :
        /\ pc[c] = "returned" /\ obs[c].fetches = 1 /\ obs[c].requests >= 1
        /\ pc[d] = "returned" /\ obs[d].fetches = 0 /\ obs[d].requests = 0
        /\ call[d].cache_key = call[c].cache_key
        /\ ret[d] = ret[c] /\ ret[d] # Some(<< >>)

\* C10 as first stated: every list returned to a caller has length <= the
\* effective limit of the call, and every list stored under type:L has
\* length <= L.
C10_ListsWithinLimit ==
    /\ \A c \in Callers :
         (pc[c] = "returned" /\ call[c] # NoCall) =>
             Len(ret[c][1]) <= call[c].effective_limit
    /\ \A k \in DOMAIN fhir_cache : Len(fhir_cache[k].data) <= k[2]

\* C10: every list returned to a caller has length <= max(effective limit
\* of the call, 0), and every list stored under type:L has length
\* <= max(L, 0).
C10_ListsWithinLimitOrEmpty ==
    /\ \A c \in Callers :
         (pc[c] = "returned" /\ call[c] # NoCall) =>
             Len(ret[c][1]) <= Max(call[c].effective_limit, 0)
    /\ \A k \in DOMAIN fhir_cache : Len(fhir_cache[k].data) <= Max(k[2], 0)

\* C10 witness: a fresh fetch and, at a later time, a cache hit under a key
\* of limit 1 both returned a list exactly as long as the limit.
C10_Witness ==
    \E c, d \in Callers :
        /\ pc[c] = "returned" /\ obs[c].fetches = 1
        /\ pc[d] = "returned" /\ obs[d].fetches = 0
        /\ call[c].effective_limit = 1 /\ call[d].effective_limit = 1
        /\ Len(ret[c][1]) = 1 /\ Len(ret[d][1]) = 1
        /\ clock > 0

\* ======================================================================
\* Two get_patients calls interleaving at their await points
\* ======================================================================

\* Limits the two racing callers pass: the default, and small ones.
RaceLimits == { None, Some(1), Some(2) }

\* The callers are interchangeable: FetchCaller is the one that calls first.
\* Nothing else orders them: a call may start while the other is in its fetch.
RaceMayCall(c) == c = FetchCaller \/ pc[FetchCaller] # "idle"

InitRace == InitStorage /\ InitCallers /\ InitAggregator /\ InitChat

NextRace ==
    \/ \E c \in Callers, limit \in RaceLimits :
         RaceMayCall(c) /\ GetPatients(c, limit)
    \/ \E c \in Callers :
         \E resp \in Answers(c, 0..MaxPageLen, ServerLinks(c)) : FetchPage(c, resp)
    \/ \E c \in Callers : FinishCached(c)

SpecRace == InitRace /\ [][NextRace]_vars

\* The list of the first n resources the server sent to caller c.
OwnList(c, n) == [ i \in 1..n |-> << c, i >> ]

\* C11: when two calls interleave and both miss, each runs its own fetch
\* (a miss never waits for or joins the other's fetch), each returns the
\* list it fetched itself, and the entry of a key is exactly the complete
\* list of the last set made on it: one caller's list, never a mixture.
C11_RaceLastWriterWins ==
    /\ \A c \in Callers :
         /\ pc[c] = "loop" => obs[c].fetches = 1
         /\ (pc[c] = "returned" /\ obs[c].fetches = 1) =>
                ret[c] = Some(OwnList(c, Len(ret[c][1])))
    /\ \A k \in DOMAIN fhir_cache :
         /\ k \in DOMAIN last_set
         /\ fhir_cache[k].data = last_set[k].data
         /\ \E c \in Callers :
              /\ pc[c] = "returned" /\ obs[c].fetches = 1
              /\ call[c].cache_key = Some(k)
              /\ fhir_cache[k].data = ret[c][1]

\* C11 witness: both callers missed on the same key, both fetched, they
\* returned different non-empty lists, and the entry is the list of the
\* caller that called first (so its set ran last).
C11_Witness ==
    /\ \A c \in Callers : pc[c] = "returned" /\ obs[c].fetches = 1
                          /\ obs[c].requests >= 1 /\ ret[c] # Some(<< >>)
    /\ call["c1"].cache_key = call["c2"].cache_key
    /\ Len(ret["c1"][1]) # Len(ret["c2"][1])
    /\ fhir_cache[call["c1"].cache_key[1]].data = ret[FetchCaller][1]

\* ======================================================================
\* The fetch state machine and the returned list, checked under SpecFetch
\* ======================================================================

\* The fetch of caller c is DONE: its loop has ended, or it has returned.
Done(c) == \/ pc[c] = "returned"
           \/ pc[c] = "loop" /\ ~LoopRuns(fetch[c])

\* Caller c's fetch has just received the response to a request.
PageArrived(c) == pc[c] = "loop" /\ obs'[c].requests = obs[c].requests + 1

\* One of the stop conditions holds after the page that just arrived: the
\* cap is reached, the page had no resource, or the request failed (raised,
\* the KeyError on a next link without url included).
CapEmptyOrFailed(c) ==
    \/ fetch'[c].fetched_count >= fetch'[c].max_records
    \/ fetch'[c].fetched_count = fetch[c].fetched_count
    \/ obs'[c].status # "ok"

\* C12 as first stated: after a page the fetch is DONE exactly when the
\* response has no next link, the count is >= max_records, the page had no
\* resource, or the request failed; otherwise the next request is issued.
\* Once DONE, it stays DONE and sends no request.
C12_DoneExactlyOnStop ==
    [][ \A c \in Callers :
          /\ PageArrived(c) =>
               (Done(c)' <=> (obs'[c].link = None \/ CapEmptyOrFailed(c)))
          /\ Done(c) => (Done(c)' /\ obs'[c].requests = obs[c].requests)
      ]_vars

\* C12: after a page the fetch is DONE exactly when the response has no next
\* link or a next link whose url is empty, the count is >= max_records, the
\* page had no resource, or the request failed; otherwise the next request
\* is issued.  Once DONE, it stays DONE and sends no request.
C12_DoneOnStopOrEmptyUrl ==
    [][ \A c \in Callers :
          /\ PageArrived(c) =>
               (Done(c)' <=> (~Truthy(obs'[c].link) \/ CapEmptyOrFailed(c)))
          /\ Done(c) => (Done(c)' /\ obs'[c].requests = obs[c].requests)
      ]_vars

\* C12 witness: the second page was empty but carried a next link, below
\* the cap, and the fetch returned without a third request.
C12_Witness ==
    \E c \in Callers :
        /\ pc[c] = "returned" /\ call[c] = NoCall
        /\ obs[c].requests = 2 /\ obs[c].status = "ok"
        /\ obs[c].link = Some(PageUrl)
        /\ fetch[c].stopped
        /\ fetch[c].fetched_count < fetch[c].max_records

\* The concatenation, in request order and within-page order, of the
\* resources of the pages caller c's fetch retrieved (a failed request
\* retrieves no page).
Retrieved(c) == OwnList(c, obs[c].sent)

\* C13 as first stated: the returned list is the first min(max_records,
\* total) elements of the retrieved pages' resources in order, and whenever
\* total >= max_records its length is exactly max_records.
C13_ReturnsPrefixOfPages ==
    \A c \in Callers :
        (pc[c] = "returned" /\ call[c] = NoCall) =>
            LET total == Len(Retrieved(c))
                max_records == fetch[c].max_records IN
            /\ ret[c] = Some(FirstN(Retrieved(c), Min(max_records, total)))
            /\ total >= max_records => Len(ret[c][1]) = max_records

\* C13: the returned list is the first min(max(max_records, 0), total)
\* elements of the retrieved pages' resources in order; whenever
\* total >= max_records >= 0 its length is exactly max_records, and it is
\* empty when max_records is negative.
C13_ReturnsPrefixOrEmpty ==
    \A c \in Callers :
        (pc[c] = "returned" /\ call[c] = NoCall) =>
            LET total == Len(Retrieved(c))
                max_records == fetch[c].max_records IN
            /\ ret[c] = Some(FirstN(Retrieved(c), Min(Max(max_records, 0), total)))
            /\ (total >= max_records /\ max_records >= 0) =>
                   Len(ret[c][1]) = max_records
            /\ max_records < 0 => ret[c] = Some(<< >>)

\* C13 witness: two pages were retrieved, the second overshot the cap, and
\* the call returned the first max_records resources in order.
C13_Witness ==
    \E c \in Callers :
        /\ pc[c] = "returned" /\ call[c] = NoCall
        /\ obs[c].requests = 2 /\ obs[c].status = "ok"
        /\ fetch[c].max_records >= 2
        /\ obs[c].sent > fetch[c].max_records
        /\ ret[c] = Some(OwnList(c, fetch[c].max_records))

\* ======================================================================
\* aggregate_fhir_data: observations and conditions
\* (services/fhir_aggregator.py)
\* ======================================================================

COMMON_TESTS_TOP == 10     \* fhir_aggregator.py:112  [:10]
TOP_CONDITIONS_TOP == 15   \* fhir_aggregator.py:158  [:15]

\* Strings of the raw resources: the empty string, the literal "unknown",
\* and the n-th string of a kind (a code, a display, a text, ...).
EmptyStr == << >>
Unknown == << "unknown" >>
Str(kind, n) == << kind, n >>

\* Python truthiness of an optional string, of an optional list, and `a or b`.
Falsy(x) == x = None \/ x = Some(EmptyStr)
FalsyList(l) == l = None \/ l = Some(<< >>)
Or(a, b) == IF Falsy(a) THEN b ELSE a

\* d.get(key, "unknown") of an optional field.
GetOrUnknown(x) == IF x = None THEN Some(Unknown) ELSE x

\* A CodeableConcept dict {"coding": [...], "text": ...}; {} is falsy.
Concept(coding, text) == [ coding |-> coding, text |-> text ]
EmptyConcept == Concept(None, None)
FalsyObj(o) == o = None \/ o = Some(EmptyConcept)

\* A raw observation or condition, by the fields the aggregator consumes.
Raw(code, category, severity) ==
    [ code |-> code, category |-> category, severity |-> severity ]

\* fhir_aggregator.py:95-100 / 131-136  code and display of a truthy code_obj
ExtractCode(code_obj) ==
    IF ~FalsyList(code_obj.coding)
    THEN [ code |-> code_obj.coding[1][1].code,
           display |-> Or(code_obj.coding[1][1].display, code_obj.text) ]
    ELSE [ code |-> code_obj.text, display |-> code_obj.text ]

\* Position of the entry of a code in code_count, 0 when it has none.
IndexOf(code_count, code) ==
    IF \E i \in 1..Len(code_count) : code_count[i].code = code
    THEN CHOOSE i \in 1..Len(code_count) : code_count[i].code = code
    ELSE 0

\* fhir_aggregator.py:102-105 / 138-141  if code: ... code_count[code]["count"] += 1
TallyCode(code_count, code, display) ==
    IF Falsy(code) THEN code_count
    ELSE LET found == IndexOf(code_count, code[1])
             entries == IF found = 0
                        THEN Append(code_count, [ code |-> code[1], count |-> 0,
                                                  display |-> display ])
                        ELSE code_count
             i == IF found = 0 THEN Len(entries) ELSE found
         IN  [ entries EXCEPT ![i].count = @ + 1 ]

\* fhir_aggregator.py:94-105 / 130-141  the code part of one loop round
TallyRecordCode(code_count, r) ==
    IF FalsyObj(r.code) THEN code_count
    ELSE LET e == ExtractCode(r.code[1])
         IN  TallyCode(code_count, e.code, e.display)

\* fhir_aggregator.py:84-89  category of an observation
ObservationCategory(r) ==
    IF FalsyList(r.category) THEN Some(Unknown)
    ELSE LET first == r.category[1][1] IN
         IF ~FalsyList(first.coding)
         THEN Or(first.coding[1][1].display, GetOrUnknown(first.text))
         ELSE GetOrUnknown(first.text)

\* fhir_aggregator.py:144-149  severity of a condition
ConditionSeverity(r) ==
    IF FalsyObj(r.severity) THEN Some(Unknown)
    ELSE LET sev_obj == r.severity[1] IN
         IF ~FalsyList(sev_obj.coding)
         THEN GetOrUnknown(sev_obj.coding[1][1].display)
         ELSE GetOrUnknown(sev_obj.text)

\* d[key] = d.get(key, 0) + 1
Incr(d, key) ==
    [ k \in (DOMAIN d) \cup { key } |->
        IF k = key THEN (IF key \in DOMAIN d THEN d[key] ELSE 0) + 1 ELSE d[k] ]

\* fhir_aggregator.py:82-105  one round of the loop over observations
AfterObservation(ro, r) ==
    [ ro EXCEPT !.taken = @ + 1,
                !.category_count = Incr(@, ObservationCategory(r)),
                !.code_count = TallyRecordCode(@, r) ]

\* fhir_aggregator.py:128-151  one round of the loop over conditions
AfterCondition(ro, r) ==
    [ ro EXCEPT !.taken = @ + 1,
                !.code_count = TallyRecordCode(@, r),
                !.severity_dist = Incr(@, ConditionSeverity(r)) ]

InsertBeforeTies(sorted, e) ==
    LET k == Cardinality({ i \in 1..Len(sorted) : sorted[i].count > e.count })
    IN  SubSeq(sorted, 1, k) \o << e >> \o SubSeq(sorted, k + 1, Len(sorted))

\* A stable sort keeps an entry behind the earlier entries of equal count:
\* e goes behind every entry of the sorted list whose count is >= its own.
InsertByCount(sorted, e) ==
    LET k == Cardinality({ i \in 1..Len(sorted) : sorted[i].count >= e.count })
    IN  SubSeq(sorted, 1, k) \o << e >> \o SubSeq(sorted, k + 1, Len(sorted))

\* fhir_aggregator.py:108-111 / 154-157
\* sorted(entries, key=lambda x: x["count"], reverse=True), a stable sort
RECURSIVE SortedByCount(_)
SortedByCount(entries) ==
    IF entries = << >> THEN << >>
    ELSE InsertByCount(SortedByCount(SubSeq(entries, 1, Len(entries) - 1)),
                       entries[Len(entries)])

\* fhir_aggregator.py:76 / 122 and 114-119 / 160-165  the section of the
\* result: omitted for an empty list.  (sampleRecords, a verbatim copy of
\* the first five raw records, is not part of the model.)
Section(ro) ==
    IF ro.taken = 0 THEN [ present |-> FALSE ]
    ELSE IF ro.kind = "observations"
    THEN [ present |-> TRUE, totalCount |-> ro.taken,
           byCategory |-> ro.category_count,
           commonTests |-> Truncate(SortedByCount(ro.code_count), COMMON_TESTS_TOP) ]
    ELSE [ present |-> TRUE, totalCount |-> ro.taken,
           topConditions |-> Truncate(SortedByCount(ro.code_count), TOP_CONDITIONS_TOP),
           severityDistribution |-> ro.severity_dist ]

\* The history of the codes a loop tallied.
SeenAfter(sn, r) ==
    IF FalsyObj(r.code) \/ Falsy(ExtractCode(r.code[1]).code) THEN sn
    ELSE LET e == ExtractCode(r.code[1])
             c == e.code[1] IN
         [ order |-> IF c \in DOMAIN sn.count THEN sn.order ELSE Append(sn.order, c),
           count |-> Incr(sn.count, c),
           last_display |-> [ k \in (DOMAIN sn.last_display) \cup { c } |->
                                IF k = c THEN e.display ELSE sn.last_display[k] ] ]

\* The loop over observations takes the next record of its list.
TakeObservation(r) ==
    /\ rollup.kind = "observations"
    /\ aggregated = None
    /\ rollup' = AfterObservation(rollup, r)
    /\ seen' = SeenAfter(seen, r)
    /\ UNCHANGED << clientVars, chatVars, now_year, inputVars, aggregated, source_data >>

\* The loop over conditions takes the next record of its list.
TakeCondition(r) ==
    /\ rollup.kind = "conditions"
    /\ aggregated = None
    /\ rollup' = AfterCondition(rollup, r)
    /\ seen' = SeenAfter(seen, r)
    /\ UNCHANGED << clientVars, chatVars, now_year, inputVars, aggregated, source_data >>

\* The list is exhausted: the section is built from the dicts.
FinishRollup ==
    /\ rollup.kind # ""
    /\ aggregated = None
    /\ aggregated' = Some(Section(rollup))
    /\ UNCHANGED << clientVars, chatVars, now_year, inputVars, rollup, seen, source_data >>

RollupKinds == { "observations", "conditions" }

InitRollup ==
    /\ InitStorage /\ InitCallers /\ InitChat
    /\ now_year = EvaluationYear
    /\ patients = << >>
    /\ observations = << >>
    /\ conditions = << >>
    /\ rollup \in { [ NoRollup EXCEPT !.kind = k ] : k \in RollupKinds }
    /\ seen = NoSeen
    /\ aggregated = None
    /\ source_data = None

TopOf(kind) == IF kind = "observations" THEN COMMON_TESTS_TOP ELSE TOP_CONDITIONS_TOP

\* A record with code.coding[0] = {code, display} and nothing else.
Coded(code, display) ==
    Raw(Some(Concept(Some(<< [ code |-> code, display |-> display ] >>), None)),
        None, None)

\* Long lists of fully coded records.  Codes are opaque to the aggregator,
\* so the k-th code to appear is named k.  Every code comes with one
\* display, but the first code of an observation list, which comes with
\* either of two.
CodedRecords(ro) ==
    { Coded(Some(Str("code", k)), Some(Str("display", 1))) :
        k \in 1..(Len(ro.code_count) + 1) }
    \cup { Coded(Some(Str("code", 1)), Some(Str("display", 2))) :
             kind \in { ro.kind } \cap { "observations" } }

NextRollup ==
    \/ \E r \in CodedRecords(rollup) :
         rollup.taken < TopOf(rollup.kind) + MaxBeyondTop /\ TakeObservation(r)
    \/ \E r \in CodedRecords(rollup) :
         rollup.taken < TopOf(rollup.kind) + MaxBeyondTop /\ TakeCondition(r)
    \/ FinishRollup

SpecRollup == InitRollup /\ [][NextRollup]_vars

\* ======================================================================
\* Properties of the observation and condition rollups
\* ======================================================================

\* The top list of the section that was produced.
TopList == IF rollup.kind = "observations"
           THEN aggregated[1].commonTests ELSE aggregated[1].topConditions

\* Position of a tallied code in first-seen order.
Rank(c) == CHOOSE i \in 1..Len(seen.order) : seen.order[i] = c

\* Code c is listed before code d: more records, or as many and seen first.
Precedes(c, d) ==
    \/ seen.count[c] > seen.count[d]
    \/ seen.count[c] = seen.count[d] /\ Rank(c) < Rank(d)

\* C14: commonTests / topConditions list distinct tallied codes by count
\* descending, codes of equal count in first-seen order, cut to the 10 / 15
\* that come first in that order, each with the number of input records
\* tallied under it.
C14_TopByCountThenFirstSeen ==
    (aggregated # None /\ aggregated[1].present) =>
        LET top == TopList
            listed == { top[i].code : i \in 1..Len(top) } IN
        /\ Len(top) = Min(TopOf(rollup.kind), Len(seen.order))
        /\ \A i \in 1..Len(top) :
             /\ top[i].code \in DOMAIN seen.count
             /\ top[i].count = seen.count[top[i].code]
        /\ \A i, j \in 1..Len(top) : i < j => Precedes(top[i].code, top[j].code)
        /\ \A c \in (DOMAIN seen.count) \ listed :
             \A i \in 1..Len(top) : Precedes(top[i].code, c)

\* C14 witness: a condition list with 16 codes, of which a code seen later
\* has the most records and heads the list, the others tie, and the code
\* seen last is cut off.
C14_Witness ==
    /\ aggregated # None /\ aggregated[1].present
    /\ rollup.kind = "conditions"
    /\ Len(seen.order) = TOP_CONDITIONS_TOP + 1
    /\ Len(TopList) = TOP_CONDITIONS_TOP
    /\ TopList[1].code # seen.order[1]
    /\ TopList[1].count = 2
    /\ TopList[2].code = seen.order[1]
    /\ \A i \in 1..Len(TopList) : TopList[i].code # seen.order[Len(seen.order)]

\* C15: each code listed in commonTests carries the display of the last
\* record, in input order, tallied under that code, also when earlier
\* records of the code carried another display.
C15_MostRecentDisplay ==
    (aggregated # None /\ aggregated[1].present /\ rollup.kind = "observations") =>
        \A i \in 1..Len(aggregated[1].commonTests) :
            LET entry == aggregated[1].commonTests[i]
            IN  entry.display = seen.last_display[entry.code]

\* ======================================================================
\* Short lists of partially populated observations and conditions
\* ======================================================================

\* coding lists: absent, empty, or one entry with or without code / display.
Codings(codes, displays) ==
    { None, Some(<< >>) }
    \cup { Some(<< [ code |-> c, display |-> d ] >>) : c \in codes, d \in displays }

\* "code" fields: absent, or an object with any coding list and with or
\* without text ({} included).
CodeFields ==
    { None }
    \cup { Some(Concept(coding, text)) :
             coding \in Codings({ None, Some(Str("code", 1)) },
                                { None, Some(EmptyStr), Some(Str("display", 1)) }),
             text \in { None, Some(Str("text", 1)) } }

\* "severity" fields.
SeverityFields ==
    { None }
    \cup { Some(Concept(coding, text)) :
             coding \in Codings({ None }, { None, Some(Str("severity", 1)) }),
             text \in { None, Some(Str("text", 2)) } }

\* "category" fields: absent, empty, or a list whose first entry is an object.
CategoryFields ==
    { None, Some(<< >>) }
    \cup { Some(<< Concept(coding, text) >>) :
             coding \in Codings({ None }, { None, Some(Str("category", 1)) }),
             text \in { None, Some(Str("text", 3)) } }

RichObservations == { Raw(c, cat, None) : c \in CodeFields, cat \in CategoryFields }
RichConditions == { Raw(c, None, sev) : c \in CodeFields, sev \in SeverityFields }

NextExtract ==
    \/ \E r \in RichObservations :
         rollup.taken < MaxRichRecords /\ TakeObservation(r)
    \/ \E r \in RichConditions :
         rollup.taken < MaxRichRecords /\ TakeCondition(r)
    \/ FinishRollup

SpecExtract == InitRollup /\ [][NextExtract]_vars

\* coding[0] of an object, when it has a coding list with an entry.
FirstCoding(o) == IF FalsyList(o.coding) THEN None ELSE Some(o.coding[1][1])

\* The record was tallied under code with display: the entry of the code
\* counts one more record, and is new with that display when it was not there.
TalliedUnder(before, after, code, display) ==
    LET i == IndexOf(before, code) IN
    IF i = 0
    THEN after = Append(before, [ code |-> code, count |-> 1, display |-> display ])
    ELSE after = [ before EXCEPT ![i].count = @ + 1 ]

\* The code / display chain as stated: coding[0].code with coding[0].display
\* or code.text; else code.text as both; else nothing is tallied.
TalliedAsStated(before, after, r) ==
    LET o == r.code[1]
        first == FirstCoding(o) IN
    IF first # None /\ ~Falsy(first[1].code)
    THEN TalliedUnder(before, after, first[1].code[1],
                      IF ~Falsy(first[1].display) THEN first[1].display ELSE o.text)
    ELSE IF ~Falsy(o.text)
    THEN TalliedUnder(before, after, o.text[1], o.text)
    ELSE after = before

\* C16: every observation and condition that has a code object is tallied
\* under code.coding[0].code when that is present, with display
\* coding[0].display or else code.text; otherwise (no coding list, or
\* coding[0] without code) under code.text as code and display when code.text
\* is present; it is left untallied only when neither yields a code.
C16_CodeFallbackChain ==
    [][ \A r \in RichObservations \cup RichConditions :
          ((TakeObservation(r) \/ TakeCondition(r)) /\ r.code # None) =>
              TalliedAsStated(rollup.code_count, rollup'.code_count, r)
      ]_vars

\* The severity chain as stated: coding[0].display, else text, else "unknown".
SeverityAsStated(r) ==
    IF r.severity = None THEN Some(Unknown)
    ELSE LET o == r.severity[1]
             first == FirstCoding(o) IN
         IF first # None /\ ~Falsy(first[1].display) THEN first[1].display
         ELSE IF ~Falsy(o.text) THEN o.text
         ELSE Some(Unknown)

RECURSIVE SumOf(_, _)
SumOf(d, keys) ==
    IF keys = {} THEN 0
    ELSE LET k == CHOOSE x \in keys : TRUE IN d[k] + SumOf(d, keys \ { k })

\* C17: every condition is tallied in severityDistribution under exactly one
\* key, severity.coding[0].display when present, else severity.text when
\* present (also when a coding list exists whose first entry has no display),
\* else "unknown"; the severity counts sum to totalCount.
C17_SeverityFallbackChain ==
    [][ \A r \in RichConditions :
          TakeCondition(r) =>
            /\ rollup'.severity_dist = Incr(rollup.severity_dist, SeverityAsStated(r))
            /\ SumOf(rollup'.severity_dist, DOMAIN rollup'.severity_dist) = rollup'.taken
      ]_vars

\* ======================================================================
\* Patients: aggregate_fhir_data and create_source_dataset
\* ======================================================================

\* A raw patient, by the fields consumed.
RawPatient(id, gender, birthDate) ==
    [ id |-> id, gender |-> gender, birthDate |-> birthDate ]

\* An ISO date string of year y, such as "2000-01-01".
IsoDate(y) == << "date", y >>

\* datetime.fromisoformat(s).year: the year of an ISO date; any other
\* string raises (None).
FromIsoformatYear(s) == IF s # EmptyStr /\ s[1] = "date" THEN Some(s[2]) ELSE None

\* fhir_aggregator.py:31-34 / 184-187  age from birthDate, None when the
\* birthDate is missing, empty or raises in fromisoformat
DerivedAge(p, year) ==
    IF Falsy(p.birthDate) THEN None
    ELSE LET birth_year == FromIsoformatYear(p.birthDate[1]) IN
         IF birth_year = None THEN None ELSE Some(year - birth_year[1])

ValidAgeInclusive(age) == 0 <= age /\ age <= 120

\* fhir_aggregator.py:35  if 0 <= age < 120
ValidAge(age) == 0 <= age /\ age < 120

AgeGroupExclusive(age) ==
    IF age < 18 THEN "0-18"
    ELSE IF age < 30 THEN "19-30"
    ELSE IF age < 50 THEN "31-50"
    ELSE IF age < 70 THEN "51-70"
    ELSE "70+"

\* fhir_aggregator.py:50-59 / 189-198  the bucket of an age
AgeGroup(age) ==
    IF age <= 18 THEN "0-18"
    ELSE IF age <= 30 THEN "19-30"
    ELSE IF age <= 50 THEN "31-50"
    ELSE IF age <= 70 THEN "51-70"
    ELSE "70+"

AgeGroupNames == { "0-18", "19-30", "31-50", "51-70", "70+" }

\* fhir_aggregator.py:41-47  age_groups = {"0-18": 0, ...}
ZeroAgeGroups == [ g \in AgeGroupNames |-> 0 ]

\* fhir_aggregator.py:24-36  ages, in input order
RECURSIVE AgesOf(_, _)
AgesOf(ps, year) ==
    IF ps = << >> THEN << >>
    ELSE LET age == DerivedAge(ps[Len(ps)], year)
             before == AgesOf(SubSeq(ps, 1, Len(ps) - 1), year) IN
         IF age # None /\ ValidAge(age[1]) THEN Append(before, age[1]) ELSE before

\* fhir_aggregator.py:27-28  gender_dist, missing gender under "unknown"
RECURSIVE GenderDist(_)
GenderDist(ps) ==
    IF ps = << >> THEN EmptyDict
    ELSE Incr(GenderDist(SubSeq(ps, 1, Len(ps) - 1)), GetOrUnknown(ps[Len(ps)].gender))

\* fhir_aggregator.py:49-59  for age in ages: age_groups[...] += 1
RECURSIVE AgeGroupsOf(_)
AgeGroupsOf(ages) ==
    IF ages = << >> THEN ZeroAgeGroups
    ELSE Incr(AgeGroupsOf(SubSeq(ages, 1, Len(ages) - 1)), AgeGroup(ages[Len(ages)]))

RECURSIVE SumSeq(_)
SumSeq(ns) == IF ns = << >> THEN 0 ELSE ns[1] + SumSeq(Tail(ns))

\* The integer nearest to num / den (den > 0), the even one on a tie.
RoundHalfEven(num, den) ==
    LET q == num \div den
        r == num - q * den IN
    IF 2 * r < den THEN q
    ELSE IF 2 * r > den THEN q + 1
    ELSE IF q % 2 = 0 THEN q ELSE q + 1

\* fhir_aggregator.py:61 / 322  round(sum(ages) / len(ages), 1), in tenths.
\* (A tie needs len(ages) to be a multiple of 4; for four ages the quotient
\* is exact in binary and round() takes the even tenth.)
AverageTenths(ages) ==
    IF ages = << >> THEN None ELSE Some(RoundHalfEven(10 * SumSeq(ages), Len(ages)))

\* sorted(ages)
RECURSIVE SortedAsc(_)
SortedAsc(ns) ==
    IF ns = << >> THEN << >>
    ELSE LET rest == SortedAsc(SubSeq(ns, 1, Len(ns) - 1))
             e == ns[Len(ns)]
             k == Cardinality({ i \in 1..Len(rest) : rest[i] <= e })
         IN  SubSeq(rest, 1, k) \o << e >> \o SubSeq(rest, k + 1, Len(rest))

\* int(x / 2): truncation towards zero
HalfTruncated(x) == IF x >= 0 THEN x \div 2 ELSE -((-x) \div 2)

\* fhir_aggregator.py:62 / 323  int(median(ages)): the middle value, or the
\* truncated mean of the two middle values
MedianInt(ages) ==
    IF ages = << >> THEN None
    ELSE LET sorted == SortedAsc(ages)
             n == Len(sorted) IN
         IF n % 2 = 1 THEN Some(sorted[(n + 1) \div 2])
         ELSE Some(HalfTruncated(sorted[n \div 2] + sorted[n \div 2 + 1]))

\* fhir_aggregator.py:20-73  aggregated["patients"], omitted for an empty
\* list (sampleRecords is not part of the model)
PatientSection(ps, year) ==
    IF ps = << >> THEN [ present |-> FALSE ]
    ELSE LET ages == AgesOf(ps, year) IN
         [ present |-> TRUE, totalCount |-> Len(ps),
           genderDistribution |-> GenderDist(ps),
           ageGroups |-> AgeGroupsOf(ages),
           averageAge |-> AverageTenths(ages),
           medianAge |-> MedianInt(ages) ]

\* fhir_aggregator.py:179-208  the flat record of a patient
FlatPatient(p, year) ==
    LET age == DerivedAge(p, year) IN
    [ id |-> p.id,
      gender |-> p.gender,
      age_group |-> IF age = None THEN None ELSE Some(AgeGroup(age[1])),
      age |-> age,
      birth_date |-> p.birthDate ]

\* fhir_aggregator.py:314-320  the loop over the flat records
RECURSIVE FlatGenderDist(_)
FlatGenderDist(flat) ==
    IF flat = << >> THEN EmptyDict
    ELSE LET before == FlatGenderDist(SubSeq(flat, 1, Len(flat) - 1))
             gender == flat[Len(flat)].gender IN
         IF Falsy(gender) THEN before ELSE Incr(before, gender)

RECURSIVE FlatAgeGroups(_)
FlatAgeGroups(flat) ==
    IF flat = << >> THEN ZeroAgeGroups
    ELSE LET before == FlatAgeGroups(SubSeq(flat, 1, Len(flat) - 1))
             age_group == flat[Len(flat)].age_group IN
         IF age_group = None THEN before ELSE Incr(before, age_group[1])

RECURSIVE FlatAges(_)
FlatAges(flat) ==
    IF flat = << >> THEN << >>
    ELSE LET before == FlatAges(SubSeq(flat, 1, Len(flat) - 1))
             age == flat[Len(flat)].age IN
         IF age = None THEN before ELSE Append(before, age[1])

\* fhir_aggregator.py:176-210 and 302-331  source_data.patients and
\* source_data.demographics (None for an empty list).  PatientAggregate
\* declares `id: str` (models.py:110), so building the flat record of a
\* patient without id raises a validation error out of the function.
PatientDataset(ps, year) ==
    LET flat == [ i \in 1..Len(ps) |-> FlatPatient(ps[i], year) ] IN
    IF \E i \in 1..Len(ps) : ps[i].id = None
    THEN [ raised |-> TRUE ]
    ELSE [ raised |-> FALSE,
           patients |-> flat,
           demographics |->
             IF flat = << >> THEN None
             ELSE Some([ total_patients |-> Len(flat),
                         gender_distribution |-> FlatGenderDist(flat),
                         age_groups |-> FlatAgeGroups(flat),
                         average_age |-> AverageTenths(FlatAges(flat)),
                         median_age |-> MedianInt(FlatAges(flat)) ]) ]

\* Ages the birth years of the input patients give: both sides of every
\* bucket bound and of the valid range, and the age 24 of a patient born in
\* 2000.
ProbeAges == { -1, 0, 18, 19, 24, 30, 31, 50, 51, 70, 71, 119, 120 }

BirthDates ==
    { None, Some(EmptyStr), Some(Str("text", 1)) }
    \cup { Some(IsoDate(EvaluationYear - a)) : a \in ProbeAges }

PatientShapes ==
    { RawPatient(Some(Str("id", 1)), gender, birthDate) :
        gender \in { None, Some(Str("gender", 1)) }, birthDate \in BirthDates }

PatientLists == UNION { [ 1..n -> PatientShapes ] : n \in 0..MaxPatients }

InitPatients ==
    /\ InitStorage /\ InitCallers /\ InitChat
    /\ now_year = EvaluationYear
    /\ patients \in PatientLists
    /\ observations = << >>
    /\ conditions = << >>
    /\ rollup = NoRollup
    /\ seen = NoSeen
    /\ aggregated = None
    /\ source_data = None

\* aggregate_fhir_data({"patients": patients})
AggregatePatients ==
    /\ aggregated = None
    /\ aggregated' = Some(PatientSection(patients, now_year))
    /\ UNCHANGED << clientVars, chatVars, now_year, inputVars, rollup, seen, source_data >>

\* create_source_dataset({"patients": patients})
CreateSourceDataset ==
    /\ source_data = None
    /\ source_data' = Some(PatientDataset(patients, now_year))
    /\ UNCHANGED << clientVars, chatVars, now_year, inputVars, rollup, seen, aggregated >>

NextPatients ==
    \/ AggregatePatients
    \/ CreateSourceDataset

SpecPatients == InitPatients /\ [][NextPatients]_vars

\* ======================================================================
\* Properties of the patient rollup and of the demographic summary
\* ======================================================================

\* Patients with a parseable birthDate, their age in the year of evaluation,
\* and those of them whose age is in [0, 120).
Parseable == { i \in 1..Len(patients) :
                 /\ patients[i].birthDate # None
                 /\ patients[i].birthDate[1] # EmptyStr
                 /\ patients[i].birthDate[1][1] = "date" }
AgeAt(i) == now_year - patients[i].birthDate[1][2]
InRange == { i \in Parseable : 0 <= AgeAt(i) /\ AgeAt(i) < 120 }

\* The bucket of an age, by inclusive upper bounds.
BucketOf(age) ==
    CASE age <= 18 -> "0-18"
      [] age > 18 /\ age <= 30 -> "19-30"
      [] age > 30 /\ age <= 50 -> "31-50"
      [] age > 50 /\ age <= 70 -> "51-70"
      [] OTHER -> "70+"

\* m is the integer median of the ages of the patients in S (S not empty).
IsMedianOf(m, S) ==
    LET n == Cardinality(S)
        below(v) == Cardinality({ i \in S : AgeAt(i) < v })
        above(v) == Cardinality({ i \in S : AgeAt(i) > v }) IN
    IF n % 2 = 1
    THEN \E i \in S : /\ m = AgeAt(i)
                      /\ below(m) <= n \div 2 /\ above(m) <= n \div 2
    ELSE \E i, j \in S :
           /\ i # j /\ AgeAt(i) <= AgeAt(j)
           /\ below(AgeAt(i)) <= n \div 2 - 1 /\ above(AgeAt(i)) <= n \div 2
           /\ above(AgeAt(j)) <= n \div 2 - 1 /\ below(AgeAt(j)) <= n \div 2
           /\ m = (AgeAt(i) + AgeAt(j)) \div 2

\* C18: a patient with a parseable birthDate has age = currentYear -
\* birthYear and counts in the age statistics iff 0 <= age < 120, then in
\* exactly one bucket by inclusive upper bounds; the other ages count in no
\* bucket, no average and no median.  Born 2000, evaluated in 2024: age 24,
\* bucket 19-30.
C18_AgeBuckets ==
    (aggregated # None /\ aggregated[1].present) =>
        LET d == aggregated[1]
            ages == [ i \in InRange |-> AgeAt(i) ] IN
        /\ \A g \in AgeGroupNames :
             d.ageGroups[g] = Cardinality({ i \in InRange : BucketOf(AgeAt(i)) = g })
        /\ InRange # {} =>
             /\ d.averageAge = Some(RoundHalfEven(10 * SumOf(ages, InRange),
                                                   Cardinality(InRange)))
             /\ d.medianAge # None /\ IsMedianOf(d.medianAge[1], InRange)
        /\ (now_year = 2024 /\ \E i \in InRange : patients[i].birthDate[1] = IsoDate(2000)) =>
             d.ageGroups["19-30"] >= 1

\* C18 witness: the patient born in 2000 and a patient of age 120, in 2024:
\* only the first counts, with age 24 in bucket 19-30.
C18_Witness ==
    /\ aggregated # None /\ aggregated[1].present
    /\ now_year = 2024
    /\ Len(patients) = 2
    /\ patients[1].birthDate = Some(IsoDate(2000))
    /\ patients[2].birthDate = Some(IsoDate(1904))
    /\ aggregated[1].ageGroups = [ ZeroAgeGroups EXCEPT !["19-30"] = 1 ]
    /\ aggregated[1].averageAge = Some(240)
    /\ aggregated[1].medianAge = Some(24)

\* C19: the five age-bucket counts sum to the number of patients with a
\* valid age (birthDate parseable, 0 <= age < 120); averageAge and medianAge
\* are absent exactly when that number is 0.
C19_BucketsSumToValid ==
    aggregated # None =>
        IF aggregated[1].present
        THEN /\ SumOf(aggregated[1].ageGroups, AgeGroupNames) = Cardinality(InRange)
             /\ aggregated[1].averageAge = None <=> InRange = {}
             /\ aggregated[1].medianAge = None <=> InRange = {}
        ELSE InRange = {}

\* C19 witness: a list of two patients, one with an unparseable birthDate
\* and one of age 120: all buckets are 0 and both statistics are absent.
C19_Witness ==
    /\ aggregated # None /\ aggregated[1].present
    /\ Len(patients) = 2
    /\ Parseable = { 2 } /\ AgeAt(2) = 120
    /\ patients[1].birthDate = Some(Str("text", 1))
    /\ aggregated[1].ageGroups = ZeroAgeGroups
    /\ aggregated[1].averageAge = None
    /\ aggregated[1].medianAge = None

\* C20: evaluated in the same year on the same list, the demographic summary
\* of create_source_dataset (age_groups, average_age, median_age) equals the
\* aggregator's ageGroups, averageAge and medianAge, and each flat record has
\* an age_group iff the aggregator counts the patient, the one it counts it
\* in, also for ages below 0 and of 120 and above.
C20_DemographicsAgree ==
    (aggregated # None /\ source_data # None /\ ~source_data[1].raised) =>
        /\ aggregated[1].present <=> source_data[1].demographics # None
        /\ aggregated[1].present =>
             LET d == source_data[1].demographics[1] IN
             /\ d.age_groups = aggregated[1].ageGroups
             /\ d.average_age = aggregated[1].averageAge
             /\ d.median_age = aggregated[1].medianAge
        /\ \A i \in 1..Len(patients) :
             source_data[1].patients[i].age_group =
                 IF i \in InRange THEN Some(BucketOf(AgeAt(i))) ELSE None

\* ======================================================================
\* aggregate_fhir_data and create_source_dataset on all three lists
\* (services/fhir_aggregator.py)
\* ======================================================================

MaxDatasetRecords == 1   \* length of the list a dataset is built from

\* A raw observation and a raw condition, by the fields consumed
\* (effectiveDateTime and onsetDateTime, copied verbatim, are left out).
RawObservation(id, subject, category, code, valueQuantity) ==
    [ id |-> id, subject |-> subject, category |-> category, code |-> code,
      valueQuantity |-> valueQuantity ]

RawCondition(id, subject, code, severity, category) ==
    [ id |-> id, subject |-> subject, code |-> code, severity |-> severity,
      category |-> category ]

\* A reference string is the sequence of its "/"-separated parts, such as
\* "Patient/p1"; a subject is a dict with or without "reference".
Reference(parts) == [ reference |-> Some(parts) ]
NoReference == [ reference |-> None ]

\* fhir_aggregator.py:216-219 / 261-264  patient_id = ref.split("/")[-1]
PatientIdOf(r) ==
    IF r.subject = None \/ r.subject = Some(NoReference) THEN None
    ELSE LET ref == r.subject[1].reference[1] IN
         IF ref = << >> THEN None ELSE Some(ref[Len(ref)])

\* fhir_aggregator.py:221-226 / 283-288  category of a flat record
FlatCategory(r) ==
    IF FalsyList(r.category) THEN None
    ELSE LET first == r.category[1][1] IN
         IF ~FalsyList(first.coding)
         THEN Or(first.coding[1][1].display, first.text)
         ELSE first.text

\* fhir_aggregator.py:228-236 / 266-274  code and display of a flat record
FlatCode(r) ==
    IF FalsyObj(r.code) THEN [ code |-> None, display |-> None ]
    ELSE ExtractCode(r.code[1])

\* fhir_aggregator.py:276-281  severity of a flat condition
FlatSeverity(r) ==
    IF FalsyObj(r.severity) THEN None
    ELSE LET sev_obj == r.severity[1] IN
         IF ~FalsyList(sev_obj.coding)
         THEN sev_obj.coding[1][1].display
         ELSE sev_obj.text

\* fhir_aggregator.py:215-253  the flat record of an observation
FlatObservation(r) ==
    [ id |-> r.id,
      patient_id |-> PatientIdOf(r),
      category |-> FlatCategory(r),
      code |-> FlatCode(r).code,
      display |-> FlatCode(r).display,
      value |-> IF r.valueQuantity = None THEN None ELSE r.valueQuantity[1].value,
      unit |-> IF r.valueQuantity = None THEN None ELSE r.valueQuantity[1].unit ]

\* fhir_aggregator.py:260-298  the flat record of a condition
FlatCondition(r) ==
    [ id |-> r.id,
      patient_id |-> PatientIdOf(r),
      code |-> FlatCode(r).code,
      display |-> FlatCode(r).display,
      severity |-> FlatSeverity(r),
      category |-> FlatCategory(r) ]

\* fhir_aggregator.py:82-105 / 128-151  the loop over a whole list
RECURSIVE RollupOf(_, _)
RollupOf(kind, rs) ==
    IF rs = << >> THEN [ NoRollup EXCEPT !.kind = kind ]
    ELSE LET before == RollupOf(kind, SubSeq(rs, 1, Len(rs) - 1)) IN
         IF kind = "observations" THEN AfterObservation(before, rs[Len(rs)])
         ELSE AfterCondition(before, rs[Len(rs)])

\* fhir_aggregator.py:12-167  aggregate_fhir_data(fhir_data); an absent key
\* and an empty list are treated alike (lines 20, 76, 122)
AggregateFhirData(ps, os, cs, year) ==
    [ patients |-> PatientSection(ps, year),
      observations |-> Section(RollupOf("observations", os)),
      conditions |-> Section(RollupOf("conditions", cs)) ]

\* fhir_aggregator.py:333-340  DatasetMetadata(...)
DatasetMetadata(now, np, no, nc) ==
    [ generated_at |-> now, patient_count |-> np, observation_count |-> no,
      condition_count |-> nc, data_source |-> "HAPI FHIR R4" ]

\* fhir_aggregator.py:170-342  create_source_dataset(fhir_data) in the year
\* `year` at the time `now`.  PatientAggregate, ObservationAggregate and
\* ConditionAggregate declare `id: str` (models.py:110, 118, 129): a record
\* without id raises a validation error out of the function.
SourceDataset(ps, os, cs, year, now) ==
    LET pd == PatientDataset(ps, year) IN
    IF \/ pd.raised
       \/ \E i \in 1..Len(os) : os[i].id = None
       \/ \E i \in 1..Len(cs) : cs[i].id = None
    THEN [ raised |-> TRUE ]
    ELSE [ raised |-> FALSE,
           patients |-> pd.patients,
           observations |-> [ i \in 1..Len(os) |-> FlatObservation(os[i]) ],
           conditions |-> [ i \in 1..Len(cs) |-> FlatCondition(cs[i]) ],
           demographics |-> pd.demographics,
           metadata |-> DatasetMetadata(now, Len(ps), Len(os), Len(cs)) ]

\* Records in which any subset of the consumed fields is absent.
Ids == { None, Some(Str("id", 1)) }

Subjects == { None, Some(NoReference),
              Some(Reference(<< Str("type", 1), Str("id", 2) >>)) }

DatasetCategories ==
    { None, Some(<< >>) }
    \cup { Some(<< Concept(coding, text) >>) :
             coding \in { None, Some(<< [ code |-> None,
                                          display |-> Some(Str("category", 1)) ] >>) },
             text \in { None, Some(Str("text", 3)) } }

DatasetCodes ==
    { None, Some(Concept(Some(<< [ code |-> Some(Str("code", 1)),
                                   display |-> Some(Str("display", 1)) ] >>), None)) }

DatasetSeverities ==
    { None,
      Some(Concept(Some(<< [ code |-> None,
                             display |-> Some(Str("severity", 1)) ] >>), None)),
      Some(Concept(None, Some(Str("text", 2)))) }

Quantities == { None, Some([ value |-> Some(7), unit |-> Some(Str("unit", 1)) ]) }

DatasetPatients ==
    { RawPatient(id, gender, birthDate) :
        id \in Ids, gender \in { None, Some(Str("gender", 1)) },
        birthDate \in { None, Some(IsoDate(2000)) } }

DatasetObservations ==
    { RawObservation(id, subject, category, code, valueQuantity) :
        id \in Ids, subject \in Subjects, category \in DatasetCategories,
        code \in DatasetCodes, valueQuantity \in Quantities }

DatasetConditions ==
    { RawCondition(id, subject, code, severity, category) :
        id \in Ids, subject \in { None, Some(Reference(<< Str("id", 2) >>)) },
        code \in DatasetCodes, severity \in DatasetSeverities,
        category \in { None, Some(<< Concept(None, Some(Str("text", 3))) >>) } }

ListsOf(shapes) == UNION { [ 1..n -> shapes ] : n \in 0..MaxDatasetRecords }

\* The request named one resource type (routes.py:93-100): fhir_data holds
\* one list, of patients, of observations or of conditions.
InitDataset ==
    /\ InitStorage /\ InitCallers /\ InitChat
    /\ now_year = EvaluationYear
    /\ \/ /\ patients \in ListsOf(DatasetPatients)
          /\ observations = << >> /\ conditions = << >>
       \/ /\ observations \in ListsOf(DatasetObservations)
          /\ patients = << >> /\ conditions = << >>
       \/ /\ conditions \in ListsOf(DatasetConditions)
          /\ patients = << >> /\ observations = << >>
    /\ rollup = NoRollup
    /\ seen = NoSeen
    /\ aggregated = None
    /\ source_data = None

\* aggregate_fhir_data(fhir_data), called now
AggregateAll ==
    /\ aggregated' = Some(AggregateFhirData(patients, observations, conditions,
                                            now_year))
    /\ UNCHANGED << clientVars, chatVars, now_year, inputVars, rollup, seen,
                    source_data >>

\* create_source_dataset(fhir_data), called now
CreateDatasetAll ==
    /\ source_data' = Some(SourceDataset(patients, observations, conditions,
                                         now_year, clock))
    /\ UNCHANGED << clientVars, chatVars, now_year, inputVars, rollup, seen,
                    aggregated >>

\* Time passes between two calls, within the year or into the next one.
TimePasses ==
    /\ advances = 0
    /\ advances' = 1
    /\ \E d \in CacheDeltas : clock' = clock + d
    /\ now_year' \in { now_year, now_year + 1 }
    /\ UNCHANGED << fhir_cache, last_cache_cleanup, lastop, last_set, callerVars >>
    /\ UNCHANGED << chatVars, inputVars, rollup, seen, aggregated, source_data >>

NextDataset ==
    \/ AggregateAll
    \/ CreateDatasetAll
    \/ TimePasses

SpecDataset == InitDataset /\ [][NextDataset]_vars

\* ======================================================================
\* Properties of the dataset functions
\* ======================================================================

\* The flat records counted by their category value.
RECURSIVE CountByCategory(_)
CountByCategory(flat) ==
    IF flat = << >> THEN EmptyDict
    ELSE Incr(CountByCategory(SubSeq(flat, 1, Len(flat) - 1)),
              flat[Len(flat)].category)

\* C21: for every observation list, the category of each flat observation
\* record is the key under which the aggregator tallies that record, so the
\* flat records counted by category give byCategory exactly, also for a
\* record with no category field or with a category entry that has neither
\* display nor text ("unknown").
C21_CategoriesAgree ==
    (aggregated # None /\ source_data # None /\ ~source_data[1].raised
        /\ observations # << >>) =>
        /\ \A i \in 1..Len(observations) :
             source_data[1].observations[i].category =
                 ObservationCategory(observations[i])
        /\ CountByCategory(source_data[1].observations) =
               aggregated[1].observations.byCategory

\* C22: for every raw record in which any subset of the consumed fields
\* (id, gender, birthDate, subject, category, code, severity, valueQuantity)
\* is absent, aggregate_fhir_data and create_source_dataset return a result
\* without raising, with each missing field resolved to its default: an
\* absent value in the flat record, "unknown" in the aggregator's tallies.
C22_NeverRaises ==
    /\ source_data # None =>
         /\ ~source_data[1].raised
         /\ \A i \in 1..Len(patients) :
              /\ source_data[1].patients[i].id = patients[i].id
              /\ patients[i].gender = None => source_data[1].patients[i].gender = None
              /\ patients[i].birthDate = None => source_data[1].patients[i].age = None
         /\ \A i \in 1..Len(observations) :
              LET r == observations[i]
                  flat == source_data[1].observations[i] IN
              /\ flat.id = r.id
              /\ r.subject = None => flat.patient_id = None
              /\ r.category = None => flat.category = None
              /\ r.code = None => flat.code = None /\ flat.display = None
              /\ r.valueQuantity = None => flat.value = None /\ flat.unit = None
         /\ \A i \in 1..Len(conditions) :
              LET r == conditions[i]
                  flat == source_data[1].conditions[i] IN
              /\ flat.id = r.id
              /\ r.subject = None => flat.patient_id = None
              /\ r.code = None => flat.code = None /\ flat.display = None
              /\ r.severity = None => flat.severity = None
              /\ r.category = None => flat.category = None
    /\ aggregated # None =>
         /\ aggregated[1].patients.present <=> patients # << >>
         /\ aggregated[1].observations.present <=> observations # << >>
         /\ aggregated[1].conditions.present <=> conditions # << >>
         /\ (\E i \in 1..Len(patients) : patients[i].gender = None) =>
              Some(Unknown) \in DOMAIN aggregated[1].patients.genderDistribution
         /\ (\E i \in 1..Len(observations) : observations[i].category = None) =>
              Some(Unknown) \in DOMAIN aggregated[1].observations.byCategory
         /\ (\E i \in 1..Len(conditions) : conditions[i].severity = None) =>
              Some(Unknown) \in DOMAIN aggregated[1].conditions.severityDistribution

\* C23: aggregate_fhir_data and create_source_dataset are pure: a call made
\* on the same input as an earlier call, at any later time, returns what the
\* earlier call returned, in every field, the dataset metadata included.
C23_Pure ==
    [][ /\ (AggregateAll /\ aggregated # None) => aggregated' = aggregated
        /\ (CreateDatasetAll /\ source_data # None) => source_data' = source_data
      ]_vars

\* ======================================================================
\* Termination of _fetch_paginated
\* ======================================================================

\* Every request is answered or times out (httpx timeout, fhir_client.py:36),
\* and the event loop resumes the coroutine: a round of the loop that can be
\* taken is taken, and a loop that has ended returns.
SpecFetchLive ==
    /\ SpecFetch
    /\ WF_vars(\E resp \in Responses(FetchCaller, 0..MaxPageLen,
                                     AllLinks(fetch[FetchCaller].resource_type)) :
                 FetchPage(FetchCaller, resp))
    /\ WF_vars(ReturnFetch(FetchCaller))

\* C24: _fetch_paginated terminates for every max_records and every server,
\* also one whose next links go on forever or form a cycle: it issues no
\* request when max_records <= 0 and at most max_records requests when
\* max_records >= 1, because every page that does not end the loop adds at
\* least one resource to fetched_count.
C24_FetchTerminates ==
    /\ [](pc[FetchCaller] # "idle" =>
            obs[FetchCaller].requests <= Max(fetch[FetchCaller].max_records, 0))
    /\ [][ (obs'[FetchCaller].requests = obs[FetchCaller].requests + 1
              /\ LoopRuns(fetch'[FetchCaller])) =>
             fetch'[FetchCaller].fetched_count >= fetch[FetchCaller].fetched_count + 1
       ]_vars
    /\ (pc[FetchCaller] = "loop") ~> (pc[FetchCaller] = "returned")

\* C24 witness: the server linked every page back to the first URL, and the
\* call returned after max_records = 2 requests of one resource each.
C24_Witness ==
    /\ pc[FetchCaller] = "returned"
    /\ fetch[FetchCaller].max_records = 2
    /\ obs[FetchCaller].requests = 2
    /\ obs[FetchCaller].via = Some(FirstUrl(fetch[FetchCaller].resource_type))
    /\ obs[FetchCaller].link = Some(FirstUrl(fetch[FetchCaller].resource_type))
    /\ obs[FetchCaller].status = "ok"
    /\ fetch[FetchCaller].fetched_count = 2

\* ======================================================================
\* Partial lists in the cache
\* ======================================================================

\* Caller c ran a fetch that a failed page request ended, and has returned.
FailedFetch(c) ==
    pc[c] = "returned" /\ obs[c].fetches = 1 /\ obs[c].failed_at > 0

MaxSessions == 2         \* sessions created in a behaviour
MaxDirectMessages == 3   \* messages stored before direct create_message stops

\* Ids are uuid4 strings: the n-th session, message or report gets the id n,
\* and 0 is a session_id a client sends that is the id of no session.
\* Titles and contents are carried along unread and are left out.
NoSessionId == 0
Roles == { "user", "assistant" }

\* storage.py:95-104  create_session
SessionsAfterCreate(ss, now) ==
    Append(ss, [ id |-> Len(ss) + 1, created_at |-> now, updated_at |-> now,
                 message_count |-> 0 ])

AllMessages(msgs, session_id) == msgs

\* storage.py:139-144  get_messages_by_session_id; messages are stored in
\* timestamp order, which the stable sort keeps
get_messages_by_session_id(msgs, session_id) ==
    SelectSeq(msgs, LAMBDA msg : msg.session_id = session_id)

\* storage.py:122-129  self.messages[message.id] = message
MessagesAfterCreate(msgs, session_id, role, now) ==
    Append(msgs, [ id |-> Len(msgs) + 1, session_id |-> session_id,
                   role |-> role, timestamp |-> now ])

\* storage.py:117-119 and 130-135  update_session_timestamp and the message
\* count, both only `if session_id in self.sessions`; msgs is self.messages
\* with the new message in it
SessionsAfterMessage(ss, msgs, session_id, now) ==
    [ i \in 1..Len(ss) |->
        IF ss[i].id = session_id
        THEN [ ss[i] EXCEPT
                 !.updated_at = now,
                 !.message_count = Len(get_messages_by_session_id(msgs, session_id)) ]
        ELSE ss[i] ]

ReportsAfterCreateTwice(rs, report_data, now) ==
    LET once == Append(rs, [ report_data EXCEPT !.id = Len(rs) + 1,
                                                !.generated_at = now ])
    IN  Append(once, [ report_data EXCEPT !.id = Len(once) + 1,
                                          !.generated_at = now ])

\* storage.py:146-153  create_report
ReportsAfterCreate(rs, report_data, now) ==
    Append(rs, [ report_data EXCEPT !.id = Len(rs) + 1, !.generated_at = now ])

\* routes.py:138-152  ReportCreate(...), by the fields the handler reads back
ReportCreate(session_id, has_data, data_source) ==
    [ id |-> 0, session_id |-> session_id, has_data |-> has_data,
      data_source |-> data_source, generated_at |-> 0 ]

\* storage.py:166-171  get_reports_by_session_id: the session's reports, the
\* most recent first; the stable sort keeps reports of one instant in
\* insertion order
RECURSIVE ByGeneratedAtDesc(_)
ByGeneratedAtDesc(rs) ==
    IF rs = << >> THEN << >>
    ELSE LET rest == ByGeneratedAtDesc(SubSeq(rs, 1, Len(rs) - 1))
             e == rs[Len(rs)]
             k == Cardinality({ i \in 1..Len(rest) :
                                  rest[i].generated_at >= e.generated_at })
         IN  SubSeq(rest, 1, k) \o << e >> \o SubSeq(rest, k + 1, Len(rest))

get_reports_by_session_id(rs, session_id) ==
    ByGeneratedAtDesc(SelectSeq(rs, LAMBDA report : report.session_id = session_id))

\* routes.py:75-84  the data of the session's most recent report is reused
\* when use_cache is set and that report has source and aggregated data
UsesCachedData(rs, session_id, use_cache) ==
    LET previous_reports == get_reports_by_session_id(rs, session_id) IN
    use_cache /\ previous_reports # << >> /\ previous_reports[1].has_data

\* POST /sessions: storage.create_session (routes.py:19-24)
CreateSession ==
    /\ Len(sessions) < MaxSessions
    /\ sessions' = SessionsAfterCreate(sessions, clock)
    /\ UNCHANGED << messages, reports, requests >>
    /\ UNCHANGED << clientVars, aggVars >>

\* storage.create_message(MessageCreate(session_id, role, content))
CreateMessage(session_id, role) ==
    /\ Len(messages) < MaxDirectMessages
    /\ messages' = MessagesAfterCreate(messages, session_id, role, clock)
    /\ sessions' = SessionsAfterMessage(sessions, messages', session_id, clock)
    /\ UNCHANGED << reports, requests >>
    /\ UNCHANGED << clientVars, aggVars >>

\* routes.py:63-89  generate_report up to its first suspension: with usable
\* cached data it goes on to the AI call, otherwise it awaits the getters.
StartReport(q, session_id, use_cache) ==
    LET cached == UsesCachedData(reports, session_id, use_cache) IN
    /\ requests[q].pc = "none"
    /\ requests' = [ requests EXCEPT ![q] =
         [ NoRequest EXCEPT !.pc = IF cached THEN "ai" ELSE "data",
                            !.session_id = session_id,
                            !.use_cache = use_cache,
                            !.has_data = cached,
                            !.data_source = IF cached THEN "cached" ELSE "live" ] ]
    /\ UNCHANGED << sessions, messages, reports >>
    /\ UNCHANGED << clientVars, aggVars >>

\* routes.py:90-125  the getters returned, and aggregate_fhir_data and
\* create_source_dataset built the data (aggregated_data is {} when every
\* list is empty); the AI call is awaited next.
DataReady(q, has_data) ==
    /\ requests[q].pc = "data"
    /\ requests' = [ requests EXCEPT ![q].pc = "ai", ![q].has_data = has_data ]
    /\ UNCHANGED << sessions, messages, reports >>
    /\ UNCHANGED << clientVars, aggVars >>

\* routes.py:178-194  an exception reaches the handler's except clause,
\* which answers HTTP 500 and stores nothing
Failed(r, error) == [ r EXCEPT !.pc = "failed", !.error = error ]

\* routes.py:94-123  data preparation raised (create_source_dataset on a
\* record without id; the getters themselves swallow their errors)
DataFails(q) ==
    /\ requests[q].pc = "data"
    /\ requests' = [ requests EXCEPT ![q] = Failed(@, "data") ]
    /\ UNCHANGED << sessions, messages, reports >>
    /\ UNCHANGED << clientVars, aggVars >>

\* routes.py:131  generate_report_with_ai raised
AiFails(q) ==
    /\ requests[q].pc = "ai"
    /\ requests' = [ requests EXCEPT ![q] = Failed(@, "ai") ]
    /\ UNCHANGED << sessions, messages, reports >>
    /\ UNCHANGED << clientVars, aggVars >>

\* routes.py:134-152  ReportCreate(...) rejected what the AI returned
ReportInvalid(q) ==
    /\ requests[q].pc = "ai"
    /\ requests' = [ requests EXCEPT ![q] = Failed(@, "validation") ]
    /\ UNCHANGED << sessions, messages, reports >>
    /\ UNCHANGED << clientVars, aggVars >>

\* routes.py:131-164  the AI returned a valid report: it is stored, then
\* the user message, and the chat response is awaited.
ReportStored(q) ==
    LET r == requests[q]
        report_data == ReportCreate(r.session_id, r.has_data, r.data_source) IN
    /\ r.pc = "ai"
    /\ reports' = ReportsAfterCreate(reports, report_data, clock)
    /\ messages' = MessagesAfterCreate(messages, r.session_id, "user", clock)
    /\ sessions' = SessionsAfterMessage(sessions, messages', r.session_id, clock)
    /\ requests' = [ requests EXCEPT ![q].pc = "chat",
                                     ![q].stored = @ \o << "report", "user" >> ]
    /\ UNCHANGED << clientVars, aggVars >>

\* routes.py:164-176  generate_chat_response returned its text or, on any
\* error, its fallback text (openai_client.py:223-225): the assistant
\* message is stored and the response is returned.
ChatStored(q) ==
    LET r == requests[q] IN
    /\ r.pc = "chat"
    /\ messages' = MessagesAfterCreate(messages, r.session_id, "assistant", clock)
    /\ sessions' = SessionsAfterMessage(sessions, messages', r.session_id, clock)
    /\ requests' = [ requests EXCEPT ![q].pc = "done",
                                     ![q].stored = Append(@, "assistant") ]
    /\ UNCHANGED reports
    /\ UNCHANGED << clientVars, aggVars >>

\* Session ids a client may send: those of the sessions and one of none.
SessionIds == { NoSessionId } \cup { sessions[i].id : i \in 1..Len(sessions) }

\* The requests are interchangeable: "q1" is the one that is made first.
MayStart(q) == q = "q1" \/ requests["q1"].pc # "none"

InitChatSpec == InitStorage /\ InitCallers /\ InitAggregator /\ InitChat

\* Direct calls on the storage, with time passing between them.
NextStorage ==
    \/ CreateSession
    \/ \E session_id \in SessionIds, role \in Roles : CreateMessage(session_id, role)
    \/ Advance({ 1 })

SpecStorage == InitChatSpec /\ [][NextStorage]_vars

\* Sessions are created and generate_report requests are handled, two of
\* them at a time, with time passing between their steps.
NextChat ==
    \/ CreateSession
    \/ \E q \in Requests, session_id \in SessionIds, use_cache \in BOOLEAN :
         MayStart(q) /\ StartReport(q, session_id, use_cache)
    \/ \E q \in Requests, has_data \in BOOLEAN : DataReady(q, has_data)
    \/ \E q \in Requests : DataFails(q)
    \/ \E q \in Requests : AiFails(q)
    \/ \E q \in Requests : ReportInvalid(q)
    \/ \E q \in Requests : ReportStored(q)
    \/ \E q \in Requests : ChatStored(q)
    \/ Advance({ 1 })

SpecChat == InitChatSpec /\ [][NextChat]_vars

\* ======================================================================
\* Properties of generate_report and of the storage
\* ======================================================================

\* How often a storage call of a kind occurs in a history, and how many
\* calls of the given kinds the requests made for a session have made.
RECURSIVE CountIn(_, _)
CountIn(stored, kind) ==
    IF stored = << >> THEN 0
    ELSE (IF stored[1] = kind THEN 1 ELSE 0) + CountIn(Tail(stored), kind)

StoredFor(session_id, kinds) ==
    Cardinality(UNION {
        { << q, i >> : i \in { j \in 1..Len(requests[q].stored) :
                                 requests[q].stored[j] \in kinds } } :
        q \in { x \in Requests : /\ requests[x].pc # "none"
                                 /\ requests[x].session_id = session_id } })

\* C26: a generate_report request that succeeds adds exactly one report and
\* exactly two messages to the storage, for its session: the report first,
\* then the user message, then the assistant message.  A request that fails
\* (in the data preparation, in the AI report call or in the validation of
\* the report) adds no report and no message: no step of it changes
\* sessions, messages or reports.
C26_ReportAllOrNothing ==
    /\ [](\A q \in Requests :
            /\ requests[q].pc = "done" =>
                 requests[q].stored = << "report", "user", "assistant" >>
            /\ requests[q].pc = "failed" =>
                 /\ requests[q].stored = << >>
                 /\ requests[q].error \in { "data", "ai", "validation" })
    /\ [](\A s \in SessionIds :
            /\ Len(get_reports_by_session_id(reports, s)) = StoredFor(s, { "report" })
            /\ Len(get_messages_by_session_id(messages, s)) =
                   StoredFor(s, { "user", "assistant" }))
    /\ [][ \A q \in Requests :
             LET before == requests[q]
                 after == requests'[q]
                 s == after.session_id IN
             (after # before) =>
               /\ after.stored = before.stored =>
                    UNCHANGED << sessions, messages, reports >>
               /\ after.pc = "failed" => after.stored = before.stored
               /\ after.stored # before.stored =>
                    /\ Len(reports') = Len(reports) + CountIn(after.stored, "report")
                                                    - CountIn(before.stored, "report")
                    /\ SubSeq(reports', 1, Len(reports)) = reports
                    /\ Len(messages') = Len(messages) + 1
                    /\ SubSeq(messages', 1, Len(messages)) = messages
                    /\ messages'[Len(messages')].session_id = s
                    /\ messages'[Len(messages')].role = after.stored[Len(after.stored)]
                    /\ after.stored \in { << "report", "user" >>,
                                          << "report", "user", "assistant" >> }
                    /\ Len(reports') > Len(reports) =>
                         /\ reports'[Len(reports')].session_id = s
                         /\ reports'[Len(reports')].generated_at
                                <= messages'[Len(messages')].timestamp
       ]_vars

\* C26 witness: of two requests for the same session, one succeeded and one
\* failed in the validation of its report: the storage holds one report and
\* the user message followed by the assistant message, and the session
\* counts two messages.
C26_Witness ==
    /\ requests["q1"].pc = "done"
    /\ requests["q2"].pc = "failed" /\ requests["q2"].error = "validation"
    /\ requests["q1"].session_id = requests["q2"].session_id
    /\ Len(reports) = 1 /\ Len(messages) = 2
    /\ messages[1].role = "user" /\ messages[2].role = "assistant"
    /\ reports[1].generated_at <= messages[1].timestamp
    /\ messages[1].timestamp < messages[2].timestamp
    /\ \E i \in 1..Len(sessions) :
         /\ sessions[i].id = requests["q1"].session_id
         /\ sessions[i].message_count = 2

\* The number of stored messages of a session.
MessagesOf(session_id) ==
    Cardinality({ i \in 1..Len(messages) : messages[i].session_id = session_id })

\* C27: after any sequence of create_session and create_message calls, the
\* message_count of every stored session is the number of stored messages
\* whose session_id is the session's id, and a create_message for one
\* session leaves message_count and updated_at of every other session
\* unchanged.
C27_MessageCountExact ==
    /\ [](\A i \in 1..Len(sessions) :
            sessions[i].message_count = MessagesOf(sessions[i].id))
    /\ [][ Len(messages') = Len(messages) + 1 =>
             /\ Len(sessions') = Len(sessions)
             /\ \A i \in 1..Len(sessions) :
                  sessions[i].id # messages'[Len(messages')].session_id =>
                      sessions'[i] = sessions[i]
       ]_vars

\* C27 witness: two sessions; the first got one message at its creation
\* time, the second got two later on: each counts its own messages and the
\* first kept its updated_at.
C27_Witness ==
    /\ Len(sessions) = 2 /\ Len(messages) >= 3
    /\ sessions[1].message_count = 1
    /\ sessions[2].message_count = 2
    /\ sessions[1].updated_at = sessions[1].created_at
    /\ sessions[2].updated_at > sessions[1].updated_at
    /\ messages[Len(messages)].session_id = sessions[2].id

====
